---- MODULE Spec2Model ----
(***************************************************************************)
(* EPIC Earth Bot: the persistent tracking ledger (src/utils/tracking.py), *)
(* the operations of the TUI (src/utils/tui.py) that call into it and the  *)
(* build phase of the daily run (src/main.py).                             *)
(*                                                                         *)
(* Strings that the code parses are sequences of one-character strings, so *)
(* that strptime is modelled by what it does.  A dict is a function whose  *)
(* domain is the set of keys present.  A timestamp has the resolution of   *)
(* one day (the ordinal of the UTC date at which it was taken).  The order *)
(* of the keys of the JSON object is not modelled.  The orchestrator of    *)
(* src/main.py runs in steps, one for each call that leaves the process.  *)
(***************************************************************************)
EXTENDS Integers, Sequences, FiniteSets, TLC

VARIABLES
    tracking_file,  \* data/tracking.json: [exists, form, data]
    data_dir,       \* TRUE iff the directory data/ exists
    files,          \* the absolute paths at which a file exists on storage
    today,          \* proleptic Gregorian ordinal of the current UTC date
    last,           \* the last call: [op, arg, ret, out]
    frames,         \* the scratch directory frames/: [exists, names]
    run,            \* the position and the locals of the running process
    collab,         \* what the collaborators answer for each date
    channel         \* the videos of the YouTube channel: a set of [title, id]

vars == <<tracking_file, data_dir, files, today, last, frames, run, collab, channel>>

-----------------------------------------------------------------------------
(* Bounds of the model *)

MaxTicks == 1

\* The calls of create_missing_videos and of upload_missing_videos in a
\* behaviour
MaxCalls == 2

\* The videos the channel holds at most
MaxVideos == 3

-----------------------------------------------------------------------------
(* Python values *)

None == [kind |-> "None"]
Bool(b) == [kind |-> "bool", val |-> b]
IntValue(n) == [kind |-> "int", val |-> n]
StrValue(s) == [kind |-> "str", val |-> s]
List(s) == [kind |-> "list", val |-> s]
Dict(e) == [kind |-> "dict", val |-> e]
PathValue(p) == [kind |-> "Path", val |-> p]
Raise(e) == [kind |-> "raise", val |-> e]

EmptyDict == [k \in {} |-> TRUE]

\* dict.update(): the keys of u are set, every other key of e is kept
update(e, u) ==
    [k \in DOMAIN e \cup DOMAIN u |-> IF k \in DOMAIN u THEN u[k] ELSE e[k]]

\* del data[k]
del(data, ks) == [k \in DOMAIN data \ ks |-> data[k]]

-----------------------------------------------------------------------------
(* datetime.strptime(date_str, "%Y-%m-%d").date() *)

Digits == {"0", "1", "2", "3", "4", "5", "6", "7", "8", "9"}

DigitVal(c) ==
    CASE c = "0" -> 0 [] c = "1" -> 1 [] c = "2" -> 2 [] c = "3" -> 3
      [] c = "4" -> 4 [] c = "5" -> 5 [] c = "6" -> 6 [] c = "7" -> 7
      [] c = "8" -> 8 [] c = "9" -> 9

is_leap(y) == (y % 4 = 0) /\ ((y % 100 # 0) \/ (y % 400 = 0))

days_in_month(y, m) ==
    CASE m \in {1, 3, 5, 7, 8, 10, 12} -> 31
      [] m \in {4, 6, 9, 11} -> 30
      [] m = 2 -> IF is_leap(y) THEN 29 ELSE 28

days_before_year(y) ==
    (y - 1) * 365 + ((y - 1) \div 4) - ((y - 1) \div 100) + ((y - 1) \div 400)

RECURSIVE days_before_month(_, _)
days_before_month(y, m) ==
    IF m = 1 THEN 0 ELSE days_before_month(y, m - 1) + days_in_month(y, m - 1)

\* date.toordinal()
toordinal(y, m, d) == days_before_year(y) + days_before_month(y, m) + d

\* The directive %m matches 1[0-2] | 0[1-9] | [1-9]
month_matches(t) ==
    \/ Len(t) = 2 /\ t[1] = "1" /\ t[2] \in {"0", "1", "2"}
    \/ Len(t) = 2 /\ t[1] = "0" /\ t[2] \in Digits \ {"0"}
    \/ Len(t) = 1 /\ t[1] \in Digits \ {"0"}

\* The directive %d matches 3[01] | [12]\d | 0[1-9] | [1-9] | " "[1-9]
day_matches(t) ==
    \/ Len(t) = 2 /\ t[1] = "3" /\ t[2] \in {"0", "1"}
    \/ Len(t) = 2 /\ t[1] \in {"1", "2"} /\ t[2] \in Digits
    \/ Len(t) = 2 /\ t[1] \in {"0", " "} /\ t[2] \in Digits \ {"0"}
    \/ Len(t) = 1 /\ t[1] \in Digits \ {"0"}

\* int() of a matched field (a leading blank of %d is stripped)
RECURSIVE to_int(_)
to_int(t) ==
    IF t = <<>> THEN 0
    ELSE IF t[Len(t)] = " " THEN 0
    ELSE 10 * to_int(SubSeq(t, 1, Len(t) - 1)) + DigitVal(t[Len(t)])

\* The result of strptime(s, "%Y-%m-%d").date(): [ok |-> TRUE, ord |-> n],
\* or [ok |-> FALSE] where the code raises ValueError (the string does not
\* match the format, data remains unconverted, or the fields are no date).
strptime(s) ==
    LET n == Len(s)
        mlen == IF n >= 7 /\ s[7] = "-" THEN 1 ELSE 2
        dfrom == 6 + mlen + 1
        shaped ==
            /\ n >= 8
            /\ \A i \in 1..4 : s[i] \in Digits
            /\ s[5] = "-"
            /\ n >= dfrom
            /\ s[6 + mlen] = "-"
            /\ month_matches(SubSeq(s, 6, 5 + mlen))
            /\ day_matches(SubSeq(s, dfrom, n))
        y == to_int(SubSeq(s, 1, 4))
        m == to_int(SubSeq(s, 6, 5 + mlen))
        d == to_int(SubSeq(s, dfrom, n))
    IN  IF shaped /\ y >= 1 /\ d <= days_in_month(y, m)
        THEN [ok |-> TRUE, ord |-> toordinal(y, m, d),
              year |-> y, month |-> m, day |-> d]
        ELSE [ok |-> FALSE]

-----------------------------------------------------------------------------
(* src/utils/youtube_upload.py: make_video_title *)

MonthNames ==
    <<"January", "February", "March", "April", "May", "June", "July",
      "August", "September", "October", "November", "December">>

DigitChar(n) ==
    CASE n = 0 -> "0" [] n = 1 -> "1" [] n = 2 -> "2" [] n = 3 -> "3"
      [] n = 4 -> "4" [] n = 5 -> "5" [] n = 6 -> "6" [] n = 7 -> "7"
      [] n = 8 -> "8" [] n = 9 -> "9"

\* A number in w digits, padded with zeros
RECURSIVE zero_padded(_, _)
zero_padded(n, w) ==
    IF w = 0 THEN <<>>
    ELSE Append(zero_padded(n \div 10, w - 1), DigitChar(n % 10))

\* dt.strftime("%B %d, %Y"): the name of the month as one string, then the
\* characters of the day and of the year
strftime(dt) ==
    <<MonthNames[dt.month], " ">> \o zero_padded(dt.day, 2) \o <<",", " ">>
        \o zero_padded(dt.year, 4)

\* The title carries the day on which it is computed
make_video_title_dated(date_str) ==
    LET dt == strptime(date_str)
        formatted == IF dt.ok THEN strftime(dt) ELSE date_str
    IN  <<"Earth from Space - ">> \o formatted \o <<" | NASA EPIC ">>
            \o zero_padded(today % 100, 2)

\* make_video_title(date_str): a string that is no date is used as it is
make_video_title(date_str) ==
    LET dt == strptime(date_str)
        formatted == IF dt.ok THEN strftime(dt) ELSE date_str
    IN  <<"Earth from Space - ">> \o formatted \o <<" | NASA EPIC">>

-----------------------------------------------------------------------------
(* pathlib *)

\* The working directory of the process
Cwd == <<"app">>

\* Collapse "." and ".." components of an absolute path
RECURSIVE normalize(_, _)
normalize(done, rest) ==
    IF rest = <<>> THEN done
    ELSE IF rest[1] = "." THEN normalize(done, Tail(rest))
    ELSE IF rest[1] = ".."
         THEN normalize(IF done = <<>> THEN done
                        ELSE SubSeq(done, 1, Len(done) - 1), Tail(rest))
    ELSE normalize(Append(done, rest[1]), Tail(rest))

\* Path(p).resolve(): absolute, without "." and ".." (storage holds no link)
resolve(p) ==
    [abs |-> TRUE,
     parts |-> normalize(<<>>, IF p.abs THEN p.parts ELSE Cwd \o p.parts)]

\* Path(p).exists()
exists(p) == resolve(p) \in files

-----------------------------------------------------------------------------
(* Inputs *)

K_0101 == <<"2", "0", "2", "6", "-", "0", "1", "-", "0", "1">>   \* "2026-01-01"
K_0102 == <<"2", "0", "2", "6", "-", "0", "1", "-", "0", "2">>   \* "2026-01-02"
K_0201 == <<"2", "0", "2", "6", "-", "0", "2", "-", "0", "1">>   \* "2026-02-01"
K_1231 == <<"2", "0", "2", "5", "-", "1", "2", "-", "3", "1">>   \* "2025-12-31"
K_short == <<"2", "0", "2", "6", "-", "1", "-", "1">>   \* "2026-1-1", accepted by strptime
K_0230 == <<"2", "0", "2", "6", "-", "0", "2", "-", "3", "0">>   \* "2026-02-30", no date
K_text == <<"b", "a", "c", "k", "u", "p">>   \* "backup", no date

\* The date strings of the ledger specification
DateKeys == {K_0102, K_0201}

\* The date strings of the purge specification
PurgeKeys == {K_0101, K_0102, K_0201, K_1231, K_short, K_0230, K_text}

RelVideo == [abs |-> FALSE, parts |-> <<"output", "a.mp4">>]
AbsVideo == [abs |-> TRUE, parts |-> <<"app", "output", "b.mp4">>]
VideoPaths == {RelVideo, AbsVideo}

VideoIds == {"yt1", "yt2"}

\* The video id of the ledger specification
LedgerIds == {"yt1"}

DateLists == {<<>>, <<K_0201, K_0102>>, <<K_0102, K_0102, K_0201>>}

\* The answers met by the remove-from-YouTube flow
RemoveAnswers ==
    {[confirm |-> TRUE, auth_ok |-> TRUE, deleted |-> TRUE],
     [confirm |-> FALSE, auth_ok |-> TRUE, deleted |-> TRUE],
     [confirm |-> TRUE, auth_ok |-> FALSE, deleted |-> TRUE],
     [confirm |-> TRUE, auth_ok |-> TRUE, deleted |-> FALSE]}

\* The answers met by the upload flow of the TUI: the user's answer to
\* "Upload ...?", the outcome of the authentication and what upload_video
\* meets
UploadAnswers ==
    {[confirm |-> TRUE, auth_ok |-> TRUE, outcome |-> "id"],
     [confirm |-> FALSE, auth_ok |-> TRUE, outcome |-> "id"],
     [confirm |-> TRUE, auth_ok |-> FALSE, outcome |-> "id"],
     [confirm |-> TRUE, auth_ok |-> TRUE, outcome |-> "none"],
     [confirm |-> TRUE, auth_ok |-> TRUE, outcome |-> "raise"]}

\* The answers met by the re-upload flow: the user's answer to "Are you
\* sure?", then those of the remove flow and of the upload flow
ReuploadAnswers ==
    {[sure |-> FALSE, remove |-> [confirm |-> TRUE, auth_ok |-> TRUE,
                                  deleted |-> TRUE],
      upload |-> [confirm |-> TRUE, auth_ok |-> TRUE, outcome |-> "id"]]}
    \cup {[sure |-> TRUE, remove |-> r,
           upload |-> [confirm |-> TRUE, auth_ok |-> TRUE, outcome |-> "id"]] :
             r \in {[confirm |-> TRUE, auth_ok |-> TRUE, deleted |-> TRUE],
                    [confirm |-> FALSE, auth_ok |-> TRUE, deleted |-> TRUE],
                    [confirm |-> TRUE, auth_ok |-> FALSE, deleted |-> TRUE],
                    [confirm |-> TRUE, auth_ok |-> TRUE, deleted |-> FALSE]}}

KeepDays == {0, 30}

\* What get_uploaded_video_titles answers: the titles on the channel and
\* their video ids
Listings == {EmptyDict, [t \in {make_video_title(K_0102)} |-> "yt2"]}

\* The ids YouTube gives to the videos it receives, in this order
IdNames == <<"yt1", "yt2", "yt3", "yt4", "yt5", "yt6", "yt7", "yt8">>

\* A video that is on the channel before the first run
OldVideo == [title |-> make_video_title(K_0102), id |-> "yt0"]

\* make_video_title over the dates of the ledger specification
video_titles == [d \in DateKeys |-> make_video_title(d)]

\* title = make_video_title(date_str)
video_title(date_str) ==
    IF date_str \in DOMAIN video_titles THEN video_titles[date_str]
    ELSE make_video_title(date_str)

\* The candidate lists of the upload phase
UploadLists == {<<K_0102, K_0201>>, <<K_0102, K_0102>>}

\* What upload_video meets: the insert returns an id, every attempt fails
\* and None is returned, or the call raises before the first attempt
PublishOutcomes == {"id", "none", "raise"}

\* What get_available_dates answers: the request fails, or the dates of the
\* archive
Archives == {Raise("HTTPError"), List(<<>>), List(<<K_0102>>),
             List(<<K_0201, K_0102>>), List(<<K_0201, K_text>>)}

\* What _get_recent_dates answers
SyncDates == {<<K_0102, K_0201>>}

\* What the collaborators of the build phase answer for a date: the request
\* for the metadata fails or returns images entries, the download of the
\* frames succeeds or fails, FFmpeg succeeds or fails
Answers ==
    {[fetch |-> "error", images |-> 0, download |-> TRUE, render |-> TRUE],
     [fetch |-> "ok", images |-> 0, download |-> TRUE, render |-> TRUE],
     [fetch |-> "ok", images |-> 1, download |-> TRUE, render |-> TRUE],
     [fetch |-> "ok", images |-> 2, download |-> FALSE, render |-> TRUE],
     [fetch |-> "ok", images |-> 2, download |-> TRUE, render |-> FALSE],
     [fetch |-> "ok", images |-> 2, download |-> TRUE, render |-> TRUE]}

\* The answers for a date with one image, and for one that is not rendered
OneImage == [fetch |-> "ok", images |-> 1, download |-> TRUE, render |-> TRUE]
NoRender == [fetch |-> "ok", images |-> 2, download |-> TRUE, render |-> FALSE]

\* The answers for a date whose video can be built
Fine == [fetch |-> "ok", images |-> 2, download |-> TRUE, render |-> TRUE]

\* The candidate lists of the build phase
BuildLists == {<<K_0102, K_0201>>, <<K_0102, K_0102>>, <<K_0201>>}

\* frames/ does not exist; names are the numbers of the frame files and
\* owners the dates whose images the files hold
NoFrames == [exists |-> FALSE, names |-> {}, owners |-> {}]

\* frames/ as a killed run leaves it: frame_000.png .. frame_002.png of
\* the date it was building
StaleFrames == [exists |-> TRUE, names |-> {0, 1, 2}, owners |-> {K_1231}]

\* The first day of a behaviour: 2026-02-01
StartDay == toordinal(2026, 2, 1)

-----------------------------------------------------------------------------
(* src/utils/tracking.py *)

\* The entry of a call in the variable last
Call(op, arg, ret, out) == [op |-> op, arg |-> arg, ret |-> ret, out |-> out]

\* json.load(f): the mapping of the JSON object the file holds; a text
\* that is cut short is no JSON and raises JSONDecodeError, as no text does
json_load ==
    IF tracking_file.form = "object" THEN Dict(tracking_file.data)
    ELSE Raise("JSONDecodeError")

_load_result_unsized ==
    IF ~tracking_file.exists THEN Dict(EmptyDict) ELSE json_load

\* What a call of _load() returns or raises: a missing file and a file of
\* size 0 read as {}
_load_result ==
    IF ~tracking_file.exists \/ tracking_file.form = "empty" THEN Dict(EmptyDict)
    ELSE json_load

\* _load() where it returns: the directory is created, the mapping is read
_load == _load_result.val

\* The effect of _load() and of _save() on the directory data/
mkdir == data_dir' = TRUE

\* _save(data): the whole mapping is written
_save(data) ==
    /\ mkdir
    /\ tracking_file' = [exists |-> TRUE, form |-> "object", data |-> data]

\* get_entry(date_str): <<entry>>, or <<>> for None
get_entry(date_str) ==
    IF date_str \in DOMAIN _load THEN <<_load[date_str]>> ELSE <<>>

\* entry.get(key) is truthy
truthy(entry, key) ==
    /\ key \in DOMAIN entry
    /\ CASE key \in {"video_created", "youtube_uploaded"} -> entry[key] = TRUE
         [] key = "video_path" -> entry[key].parts # <<>>
         [] key = "youtube_video_id" -> entry[key] # ""
         [] OTHER -> TRUE

is_video_created_flag_only(date_str) ==
    LET entry == get_entry(date_str)
    IN  IF entry = <<>> THEN FALSE
        ELSE truthy(entry[1], "video_created") /\ truthy(entry[1], "video_path")

is_video_created(date_str) ==
    LET entry == get_entry(date_str)
    IN  IF entry = <<>> THEN FALSE
        ELSE IF truthy(entry[1], "video_created") /\ truthy(entry[1], "video_path")
             THEN exists(entry[1].video_path)
        ELSE FALSE

is_uploaded_with_video(date_str) ==
    LET entry == get_entry(date_str)
    IN  IF entry = <<>> THEN FALSE
        ELSE truthy(entry[1], "youtube_uploaded") /\ is_video_created(date_str)

is_uploaded(date_str) ==
    LET entry == get_entry(date_str)
    IN  IF entry = <<>> THEN FALSE
        ELSE truthy(entry[1], "youtube_uploaded")

RECURSIVE get_dates_needing_video_unique(_)
get_dates_needing_video_unique(date_list) ==
    IF date_list = <<>> THEN <<>>
    ELSE (IF /\ ~is_video_created(date_list[1])
             /\ \A k \in 2..Len(date_list) : date_list[k] # date_list[1]
          THEN <<date_list[1]>> ELSE <<>>)
         \o get_dates_needing_video_unique(Tail(date_list))

\* [d for d in date_list if not is_video_created(d)]
RECURSIVE get_dates_needing_video(_)
get_dates_needing_video(date_list) ==
    IF date_list = <<>> THEN <<>>
    ELSE (IF ~is_video_created(date_list[1]) THEN <<date_list[1]>> ELSE <<>>)
         \o get_dates_needing_video(Tail(date_list))

RECURSIVE get_dates_needing_upload_any(_)
get_dates_needing_upload_any(date_list) ==
    IF date_list = <<>> THEN <<>>
    ELSE (IF ~is_uploaded(date_list[1]) THEN <<date_list[1]>> ELSE <<>>)
         \o get_dates_needing_upload_any(Tail(date_list))

\* [d for d in date_list if is_video_created(d) and not is_uploaded(d)]
RECURSIVE get_dates_needing_upload(_)
get_dates_needing_upload(date_list) ==
    IF date_list = <<>> THEN <<>>
    ELSE (IF is_video_created(date_list[1]) /\ ~is_uploaded(date_list[1])
          THEN <<date_list[1]>> ELSE <<>>)
         \o get_dates_needing_upload(Tail(date_list))

\* data with data[date_str] set to entry
with_entry(data, date_str, entry) ==
    [k \in DOMAIN data \cup {date_str} |-> IF k = date_str THEN entry ELSE data[k]]

\* data[date_str], after "if date_str not in data: data[date_str] = {}"
entry_of(data, date_str) ==
    IF date_str \in DOMAIN data THEN data[date_str] ELSE EmptyDict

\* mark_video_created sets the flag and the timestamp and leaves the path out
with_video_created_pathless(data, date_str, video_path) ==
    with_entry(data, date_str,
        update(entry_of(data, date_str),
            [video_created |-> TRUE, created_at |-> today]))

\* data after the statements of mark_video_created that precede _save
with_video_created(data, date_str, video_path) ==
    with_entry(data, date_str,
        update(entry_of(data, date_str),
            [video_created |-> TRUE,
             video_path |-> resolve(video_path),
             created_at |-> today]))

\* data after the statements of mark_uploaded that precede _save
with_uploaded(data, date_str, youtube_video_id) ==
    with_entry(data, date_str,
        update(entry_of(data, date_str),
            [youtube_uploaded |-> TRUE,
             youtube_video_id |-> youtube_video_id,
             uploaded_at |-> today]))

mark_video_created_replacing(date_str, video_path) ==
    /\ _save(with_entry(_load, date_str,
           [video_created |-> TRUE,
            video_path |-> resolve(video_path),
            created_at |-> today]))
    /\ last' = Call("mark_video_created", <<date_str, video_path>>, None,
                    <<"Marked video created", date_str>>)
    /\ UNCHANGED <<files, today, frames, run, collab, channel>>

mark_video_created(date_str, video_path) ==
    /\ _save(with_video_created(_load, date_str, video_path))
    /\ last' = Call("mark_video_created", <<date_str, video_path>>, None,
                    <<"Marked video created", date_str>>)
    /\ UNCHANGED <<files, today, frames, run, collab, channel>>

mark_uploaded_replacing(date_str, youtube_video_id) ==
    /\ _save(with_entry(_load, date_str,
           [youtube_uploaded |-> TRUE,
            youtube_video_id |-> youtube_video_id,
            uploaded_at |-> today]))
    /\ last' = Call("mark_uploaded", <<date_str, youtube_video_id>>, None,
                    <<"Marked uploaded", date_str, youtube_video_id>>)
    /\ UNCHANGED <<files, today, frames, run, collab, channel>>

mark_uploaded(date_str, youtube_video_id) ==
    /\ _save(with_uploaded(_load, date_str, youtube_video_id))
    /\ last' = Call("mark_uploaded", <<date_str, youtube_video_id>>, None,
                    <<"Marked uploaded", date_str, youtube_video_id>>)
    /\ UNCHANGED <<files, today, frames, run, collab, channel>>

\* The keys the loop of cleanup_old_entries removes: strptime succeeds and
\* the date is before the cutoff; a ValueError skips the key
old_keys_inclusive(data, cutoff) ==
    {k \in DOMAIN data : strptime(k).ok /\ strptime(k).ord <= cutoff}

old_keys(data, cutoff) ==
    {k \in DOMAIN data : strptime(k).ok /\ strptime(k).ord < cutoff}

\* What cleanup_old_entries prints
cleanup_message(removed) ==
    IF removed # {} THEN <<"Cleaned up", Cardinality(removed), removed>> ELSE <<>>

cleanup_old_entries_unguarded(keep_days) ==
    LET data == _load
        removed == old_keys(data, today - keep_days)
        raises == \E k \in DOMAIN data : ~strptime(k).ok
    IN  /\ IF raises
           THEN /\ mkdir
                /\ UNCHANGED tracking_file
                /\ last' = Call("cleanup_old_entries", keep_days,
                                Raise("ValueError"), <<>>)
           ELSE /\ IF removed # {} THEN _save(del(data, removed))
                   ELSE mkdir /\ UNCHANGED tracking_file
                /\ last' = Call("cleanup_old_entries", keep_days, None,
                                cleanup_message(removed))
        /\ UNCHANGED <<files, today, frames, run, collab, channel>>

cleanup_old_entries_returning(keep_days) ==
    LET data == _load
        removed == old_keys(data, today - keep_days)
    IN  /\ IF removed # {} THEN _save(del(data, removed))
           ELSE mkdir /\ UNCHANGED tracking_file
        /\ last' = Call("cleanup_old_entries", keep_days, List(removed),
                        cleanup_message(removed))
        /\ UNCHANGED <<files, today, frames, run, collab, channel>>

cleanup_old_entries(keep_days) ==
    LET data == _load
        cutoff == today - keep_days
        removed == old_keys(data, cutoff)
    IN  /\ IF removed # {} THEN _save(del(data, removed))
           ELSE mkdir /\ UNCHANGED tracking_file
        /\ last' = Call("cleanup_old_entries", keep_days, None,
                        cleanup_message(removed))
        /\ UNCHANGED <<files, today, frames, run, collab, channel>>

-----------------------------------------------------------------------------
(* Calls of the read operations of src/utils/tracking.py *)

call_get_all_entries ==
    /\ mkdir
    /\ last' = Call("get_all_entries", <<>>, Dict(_load), <<>>)
    /\ UNCHANGED <<tracking_file, files, today, frames, run, collab, channel>>

call_get_entry(date_str) ==
    /\ mkdir
    /\ last' = Call("get_entry", date_str,
                    IF get_entry(date_str) = <<>> THEN None
                    ELSE Dict(get_entry(date_str)[1]), <<>>)
    /\ UNCHANGED <<tracking_file, files, today, frames, run, collab, channel>>

call_is_video_created_healing(date_str) ==
    /\ IF date_str \in DOMAIN _load /\ is_video_created_flag_only(date_str)
          /\ ~is_video_created(date_str)
       THEN _save(with_entry(_load, date_str,
                update(_load[date_str], [video_created |-> FALSE])))
       ELSE mkdir /\ UNCHANGED tracking_file
    /\ last' = Call("is_video_created", date_str,
                    Bool(is_video_created(date_str)), <<>>)
    /\ UNCHANGED <<files, today, frames, run, collab, channel>>

call_is_video_created(date_str) ==
    /\ mkdir
    /\ last' = Call("is_video_created", date_str,
                    Bool(is_video_created(date_str)), <<>>)
    /\ UNCHANGED <<tracking_file, files, today, frames, run, collab, channel>>

call_is_uploaded(date_str) ==
    /\ mkdir
    /\ last' = Call("is_uploaded", date_str, Bool(is_uploaded(date_str)), <<>>)
    /\ UNCHANGED <<tracking_file, files, today, frames, run, collab, channel>>

call_get_dates_needing_video(date_list) ==
    /\ mkdir
    /\ last' = Call("get_dates_needing_video", date_list,
                    List(get_dates_needing_video(date_list)), <<>>)
    /\ UNCHANGED <<tracking_file, files, today, frames, run, collab, channel>>

call_get_dates_needing_upload(date_list) ==
    /\ mkdir
    /\ last' = Call("get_dates_needing_upload", date_list,
                    List(get_dates_needing_upload(date_list)), <<>>)
    /\ UNCHANGED <<tracking_file, files, today, frames, run, collab, channel>>

-----------------------------------------------------------------------------
(* src/utils/video_engine.py *)

\* create_video(..., output_path, ...): FFmpeg writes the file and the
\* resolved path is returned, or the call raises and writes nothing
create_video(output_path, ok) ==
    /\ files' = IF ok THEN files \cup {resolve(output_path)} ELSE files
    /\ last' = Call("create_video", output_path,
                    IF ok THEN PathValue(resolve(output_path)) ELSE Raise("Error"),
                    <<>>)
    /\ UNCHANGED <<tracking_file, data_dir, today, frames, run, collab, channel>>

-----------------------------------------------------------------------------
(* src/utils/tui.py *)

\* The names that src/utils/tracking.py defines
tracking_names ==
    {"TRACKING_FILE", "_load", "_save", "get_all_entries", "get_entry",
     "is_video_created", "is_uploaded", "mark_video_created", "mark_uploaded",
     "get_dates_needing_video", "get_dates_needing_upload",
     "cleanup_old_entries", "print_summary"}

\* "from utils.tracking import <names>" succeeds
import_ok(names) == names \subseteq tracking_names

\* A flow whose first statement is an import that raises ImportError: nothing
\* after the import is executed
import_error(op, arg) ==
    /\ last' = Call(op, arg, Raise("ImportError"), <<>>)
    /\ UNCHANGED <<tracking_file, data_dir, files, today, frames, run, collab, channel>>

\* _action_regenerate_video(date_str); proceed is the user's answer to
\* "Proceed with regeneration?"
action_regenerate_video(date_str, proceed) ==
    /\ ~import_ok({"get_entry", "unmark_video_created"})
    /\ import_error("action_regenerate_video", <<date_str, proceed>>)

\* _action_delete_local(date_str); confirm is the user's answer to
\* "Delete this file?"
action_delete_local(date_str, confirm) ==
    /\ ~import_ok({"get_entry", "unmark_video_created"})
    /\ import_error("action_delete_local", <<date_str, confirm>>)

\* _batch_regenerate_all(); sure is the user's answer to
\* "Are you absolutely sure?"
batch_regenerate_all(sure) ==
    /\ ~import_ok({"unmark_video_created", "get_entry"})
    /\ import_error("batch_regenerate_all", <<sure>>)

\* _action_remove_from_youtube(date_str); answers holds the user's answer to
\* "Delete YouTube video?" (confirm), the outcome of the authentication
\* (auth_ok) and the outcome of delete_video (deleted)
action_remove_from_youtube(date_str, answers) ==
    /\ ~import_ok({"get_entry", "unmark_uploaded"})
    /\ import_error("action_remove_from_youtube", <<date_str, answers>>)

\* The statements of _action_upload_video(date_str), ending as the flow op
\* with the value ret: without a path in the record or without the file the
\* flow returns, as it does when the user declines or the authentication
\* fails; otherwise upload_video is called and an id it returns is recorded
\* with mark_uploaded.  What upload_video or mark_uploaded raises is caught.
upload_flow(op, ret, arg, date_str, answers) ==
    LET entry == get_entry(date_str)
        video_id == IdNames[Cardinality(channel) + 1]
        ends(out) == last' = Call(op, arg, ret, out)
    IN  IF entry = <<>> \/ ~truthy(entry[1], "video_path")
           \/ ~exists(entry[1].video_path)
        THEN /\ ends(<<"Video file not found">>)
             /\ mkdir
             /\ UNCHANGED <<tracking_file, channel>>
        ELSE IF ~answers.confirm \/ ~answers.auth_ok
        THEN /\ ends(<<>>)
             /\ mkdir
             /\ UNCHANGED <<tracking_file, channel>>
        ELSE IF answers.outcome = "id"
        THEN /\ Cardinality(channel) < MaxVideos
             /\ channel' = channel \cup
                    {[title |-> make_video_title(date_str), id |-> video_id]}
             /\ _save(with_uploaded(_load, date_str, video_id))
             /\ ends(<<"Uploaded", video_id>>)
        ELSE /\ ends(<<"Upload failed">>)
             /\ mkdir
             /\ UNCHANGED <<tracking_file, channel>>

\* _action_upload_video(date_str)
action_upload_video(date_str, answers) ==
    /\ import_ok({"get_entry", "mark_uploaded"})
    /\ upload_flow("action_upload_video", None, <<date_str, answers>>,
                   date_str, answers)
    /\ UNCHANGED <<files, today, frames, run, collab>>

\* The re-upload uploads the new copy before it removes the old one
action_reupload_video_upload_first(date_str, answers) ==
    IF ~answers.sure
    THEN /\ last' = Call("action_reupload_video", <<date_str, answers>>, None,
                         <<>>)
         /\ UNCHANGED <<tracking_file, data_dir, files, today, frames, run,
                        collab, channel>>
    ELSE /\ ~import_ok({"get_entry", "unmark_uploaded"})
         /\ upload_flow("action_reupload_video", Raise("ImportError"),
                        <<date_str, answers>>, date_str, answers.upload)
         /\ UNCHANGED <<files, today, frames, run, collab>>

\* _action_reupload_video(date_str): when the user is sure,
\* _action_remove_from_youtube is called first; its import raises
\* ImportError, which ends the flow before _action_upload_video
action_reupload_video(date_str, answers) ==
    IF ~answers.sure
    THEN /\ last' = Call("action_reupload_video", <<date_str, answers>>, None,
                         <<>>)
         /\ UNCHANGED <<tracking_file, data_dir, files, today, frames, run,
                        collab, channel>>
    ELSE /\ ~import_ok({"get_entry", "unmark_uploaded"})
         /\ import_error("action_reupload_video", <<date_str, answers>>)

\* youtube_sync(): without a service the flow returns; the import that
\* follows the authentication raises ImportError, before the uploads of the
\* channel (yt_titles) and the recent dates (dates) are asked for
youtube_sync(auth_ok, yt_titles, dates) ==
    IF ~auth_ok
    THEN /\ last' = Call("youtube_sync", <<auth_ok, yt_titles, dates>>, None,
                         <<>>)
         /\ UNCHANGED <<tracking_file, data_dir, files, today, frames, run, collab, channel>>
    ELSE /\ ~import_ok({"get_entry", "mark_uploaded", "unmark_uploaded",
                        "is_uploaded"})
         /\ import_error("youtube_sync", <<auth_ok, yt_titles, dates>>)

-----------------------------------------------------------------------------
(* The clock *)

\* datetime.now(timezone.utc) moves to the next day
Tick ==
    /\ today < StartDay + MaxTicks
    /\ today' = today + 1
    /\ last' = Call("tick", <<>>, None, <<>>)
    /\ UNCHANGED <<tracking_file, data_dir, files, frames, run, collab, channel>>

-----------------------------------------------------------------------------
(* The writes of _save, one step for each change of the file *)

\* No call is running
Idle == [pc |-> "idle", calls |-> 0]

\* The mutators of the ledger and the mapping each one saves
Mutations ==
    {[op |-> "mark_video_created", arg |-> <<d, AbsVideo>>] : d \in DateKeys}
    \cup {[op |-> "mark_uploaded", arg |-> <<d, id>>] :
               d \in DateKeys, id \in LedgerIds}

mutated(m, data) ==
    IF m.op = "mark_video_created"
    THEN with_video_created(data, m.arg[1], m.arg[2])
    ELSE with_uploaded(data, m.arg[1], m.arg[2])

\* A mutator up to open(TRACKING_FILE, "w"): _load() raises, or the mapping
\* to save is computed and the file is truncated to size 0
save_open(m) ==
    /\ run.pc = "idle"
    /\ mkdir
    /\ IF _load_result.kind = "raise"
       THEN /\ last' = Call(m.op, m.arg, _load_result, <<>>)
            /\ UNCHANGED <<tracking_file, run>>
       ELSE /\ tracking_file' =
                   [exists |-> TRUE, form |-> "empty", data |-> EmptyDict]
            /\ run' = [pc |-> "open", op |-> m.op, arg |-> m.arg,
                       pre |-> _load, data |-> mutated(m, _load)]
            /\ last' = Call("open", <<"tracking.json", "w">>, None, <<>>)
    /\ UNCHANGED <<files, today, frames, collab, channel>>

\* json.dump(data, f): the buffer of f is flushed before the text is complete
save_write ==
    /\ run.pc = "open"
    /\ tracking_file' = [exists |-> TRUE, form |-> "cut", data |-> EmptyDict]
    /\ run' = [run EXCEPT !.pc = "partial"]
    /\ UNCHANGED <<data_dir, files, today, last, frames, collab, channel>>

\* The end of the with block: the text is complete and the mutator returns
save_close ==
    /\ run.pc \in {"open", "partial"}
    /\ _save(run.data)
    /\ run' = Idle
    /\ last' = Call(run.op, run.arg, None,
                    IF run.op = "mark_video_created"
                    THEN <<"Marked video created", run.arg[1]>>
                    ELSE <<"Marked uploaded", run.arg[1], run.arg[2]>>)
    /\ UNCHANGED <<files, today, frames, collab, channel>>

\* The process is killed while the file is open for writing
kill ==
    /\ run.pc \in {"open", "partial"}
    /\ run' = [run EXCEPT !.pc = "killed"]
    /\ last' = Call("kill", <<>>, None, <<>>)
    /\ UNCHANGED <<tracking_file, data_dir, files, today, frames, collab, channel>>

\* The process is killed while create_missing_videos or
\* upload_missing_videos runs: nothing of the rest of the run is executed,
\* the finally clause of the build included
crash ==
    /\ run.pc \in {"fetch", "download", "render", "record", "cleanup",
                   "auth", "listing", "title", "publish", "mark"}
    /\ run' = [pc |-> "killed", calls |-> run.calls]
    /\ last' = Call("kill", <<>>, None, <<>>)
    /\ UNCHANGED <<tracking_file, data_dir, files, today, frames, collab, channel>>

\* The next daily run starts after main has ended
next_run ==
    /\ last.op = "main"
    /\ run' = Idle
    /\ last' = Call("start", <<>>, None, <<>>)
    /\ UNCHANGED <<tracking_file, data_dir, files, today, frames, collab, channel>>

\* The next process starts
restart ==
    /\ run.pc = "killed"
    /\ run' = Idle
    /\ last' = Call("start", <<>>, None, <<>>)
    /\ UNCHANGED <<tracking_file, data_dir, files, today, frames, collab, channel>>

call_load ==
    /\ run.pc = "idle"
    /\ mkdir
    /\ last' = Call("_load", <<>>, _load_result, <<>>)
    /\ UNCHANGED <<tracking_file, files, today, frames, run, collab, channel>>

-----------------------------------------------------------------------------
(* src/main.py: create_missing_videos, one step for each call it makes *)

OUTPUT_DIR == [abs |-> FALSE, parts |-> <<"output">>]

\* f"epic_earth_{date_str}.mp4"
video_filename(date_str) ==
    CASE date_str = K_0102 -> "epic_earth_2026-01-02.mp4"
      [] date_str = K_0201 -> "epic_earth_2026-02-01.mp4"

\* OUTPUT_DIR / video_filename
output_path(date_str) ==
    [abs |-> FALSE, parts |-> OUTPUT_DIR.parts \o <<video_filename(date_str)>>]

\* What the call prints: the step, the date and the exception if there is one
Event(ev, date_str, why) == [ev |-> ev, date |-> date_str, why |-> why]

\* The call before this one, if there is one
previous ==
    IF run.pc = "idle" THEN [pc |-> "idle", dates |-> <<>>, log |-> <<>>]
    ELSE [pc |-> run.pc, dates |-> run.dates, log |-> run.log]

\* The frame of a call of create_missing_videos(dates, api_key)
called(dates, pc, need_video) ==
    [pc |-> pc, calls |-> run.calls + 1, dates |-> dates,
     need_video |-> need_video, i |-> 1, created |-> 0,
     frame_paths |-> <<>>, video_path |-> <<>>, log |-> <<>>,
     at_start |-> tracking_file, prev |-> previous]

\* The date of the iteration
date_str_of(r) == r.need_video[r.i]

\* The frame after a step of the iteration that printed evs
stepped(pc, evs) == [run EXCEPT !.pc = pc, !.log = @ \o evs]

build_start_unfiltered(dates) ==
    /\ run.pc \in {"idle", "returned", "raised"}
    /\ run.calls < MaxCalls
    /\ mkdir
    /\ IF _load_result.kind = "raise"
       THEN /\ run' = called(dates, "raised", <<>>)
            /\ last' = Call("create_missing_videos", dates, _load_result, <<>>)
       ELSE /\ run' = called(dates, "fetch", dates)
            /\ UNCHANGED last
    /\ UNCHANGED <<tracking_file, files, today, frames, collab, channel>>

\* create_missing_videos up to the loop: get_dates_needing_video(dates)
\* raises what _load() raises; without a date that needs a video the call
\* returns 0.  main() passes a list that is not empty.
build_start(dates) ==
    /\ run.pc \in {"idle", "returned", "raised"}
    /\ run.calls < MaxCalls
    /\ mkdir
    /\ IF _load_result.kind = "raise"
       THEN /\ run' = called(dates, "raised", <<>>)
            /\ last' = Call("create_missing_videos", dates, _load_result, <<>>)
       ELSE LET need_video == get_dates_needing_video(dates)
            IN  IF need_video = <<>>
                THEN /\ run' = called(dates, "returned", need_video)
                     /\ last' = Call("create_missing_videos", dates,
                                     IntValue(0), <<>>)
                ELSE /\ run' = called(dates, "fetch", need_video)
                     /\ UNCHANGED last
    /\ UNCHANGED <<tracking_file, files, today, frames, collab, channel>>

build_fetch_aborting ==
    /\ run.pc = "fetch"
    /\ LET d == date_str_of(run)
           fetched == Event("fetch", d, "")
       IN  run' =
             IF collab[d].fetch = "error"
             THEN stepped("raised",
                      <<fetched, Event("failed", d, "RequestException")>>)
             ELSE IF collab[d].images = 0
             THEN stepped("cleanup", <<fetched, Event("skip", d, "no images")>>)
             ELSE stepped("download", <<fetched>>)
    /\ UNCHANGED <<tracking_file, data_dir, files, today, last, frames, collab, channel>>

\* metadata = get_images_metadata_for_date(date_str, api_key): the request
\* raises, or the list is empty and the date is skipped, or the frames are
\* downloaded next
build_fetch ==
    /\ run.pc = "fetch"
    /\ LET d == date_str_of(run)
           fetched == Event("fetch", d, "")
       IN  run' =
             IF collab[d].fetch = "error"
             THEN stepped("cleanup",
                      <<fetched, Event("failed", d, "RequestException")>>)
             ELSE IF collab[d].images = 0
             THEN stepped("cleanup", <<fetched, Event("skip", d, "no images")>>)
             ELSE stepped("download", <<fetched>>)
    /\ UNCHANGED <<tracking_file, data_dir, files, today, last, frames, collab, channel>>

build_download_leaking ==
    /\ run.pc = "download"
    /\ LET d == date_str_of(run)
           n == collab[d].images
           raises == ~collab[d].download /\ (n - 1) \notin frames.names
           written == IF raises THEN 0..(n - 2) ELSE 0..(n - 1)
           downloaded == Event("download", d, "")
       IN  /\ frames' = [exists |-> TRUE, names |-> frames.names \cup written,
                        owners |-> frames.owners \cup
                            IF written \subseteq frames.names THEN {}
                            ELSE {d}]
           /\ run' =
                IF raises
                THEN stepped("cleanup",
                         <<downloaded, Event("failed", d, "RequestException")>>)
                ELSE IF n < 2
                THEN IF run.i < Len(run.need_video)
                     THEN [stepped("fetch",
                              <<downloaded, Event("skip", d, "frames")>>)
                           EXCEPT !.i = @ + 1]
                     ELSE stepped("cleanup",
                              <<downloaded, Event("skip", d, "frames")>>)
                ELSE [stepped("render", <<downloaded>>)
                      EXCEPT !.frame_paths = [k \in 1..n |-> k - 1]]
    /\ UNCHANGED <<tracking_file, data_dir, files, today, last, collab, channel>>

build_download_unchecked ==
    /\ run.pc = "download"
    /\ LET d == date_str_of(run)
           n == collab[d].images
           raises == ~collab[d].download /\ (n - 1) \notin frames.names
           written == IF raises THEN 0..(n - 2) ELSE 0..(n - 1)
           downloaded == Event("download", d, "")
       IN  /\ frames' = [exists |-> TRUE, names |-> frames.names \cup written,
                        owners |-> frames.owners \cup
                            IF written \subseteq frames.names THEN {}
                            ELSE {d}]
           /\ run' =
                IF raises
                THEN stepped("cleanup",
                         <<downloaded, Event("failed", d, "RequestException")>>)
                ELSE [stepped("render", <<downloaded>>)
                      EXCEPT !.frame_paths = [k \in 1..n |-> k - 1]]
    /\ UNCHANGED <<tracking_file, data_dir, files, today, last, collab, channel>>

\* frames = download_images(metadata, FRAMES_DIR): the directory is created
\* and frame_00i.png is requested and written for each entry unless a file
\* of that name is there; where the download fails, it is the request for
\* the last frame that raises, after the frames before it were written.
\* With fewer than 2 frames the date is skipped.
build_download ==
    /\ run.pc = "download"
    /\ LET d == date_str_of(run)
           n == collab[d].images
           raises == ~collab[d].download /\ (n - 1) \notin frames.names
           written == IF raises THEN 0..(n - 2) ELSE 0..(n - 1)
           downloaded == Event("download", d, "")
       IN  /\ frames' = [exists |-> TRUE, names |-> frames.names \cup written,
                        owners |-> frames.owners \cup
                            IF written \subseteq frames.names THEN {}
                            ELSE {d}]
           /\ run' =
                IF raises
                THEN stepped("cleanup",
                         <<downloaded, Event("failed", d, "RequestException")>>)
                ELSE IF n < 2
                THEN stepped("cleanup",
                         <<downloaded, Event("skip", d, "frames")>>)
                ELSE [stepped("render", <<downloaded>>)
                      EXCEPT !.frame_paths = [k \in 1..n |-> k - 1]]
    /\ UNCHANGED <<tracking_file, data_dir, files, today, last, collab, channel>>

\* video_path = create_video(frames, str(output_path), ...): FFmpeg writes
\* the file and the resolved path is returned, or the call raises
build_render ==
    /\ run.pc = "render"
    /\ LET d == date_str_of(run)
           rendered == Event("render", d, "")
       IN  IF Len(run.frame_paths) >= 2 /\ collab[d].render
           THEN /\ files' = files \cup {resolve(output_path(d))}
                /\ run' = [stepped("record", <<rendered>>)
                           EXCEPT !.video_path = <<resolve(output_path(d))>>]
           ELSE /\ run' = stepped("cleanup",
                              <<rendered, Event("failed", d, "Error")>>)
                /\ UNCHANGED files
    /\ UNCHANGED <<tracking_file, data_dir, today, last, frames, collab, channel>>

\* mark_video_created(date_str, str(video_path)) and created += 1; what
\* _load() raises is caught by "except Exception" like every other failure
build_record ==
    /\ run.pc = "record"
    /\ LET d == date_str_of(run)
       IN  IF _load_result.kind = "raise"
           THEN /\ mkdir
                /\ run' = stepped("cleanup",
                              <<Event("failed", d, _load_result.val)>>)
                /\ UNCHANGED tracking_file
           ELSE /\ _save(with_video_created(_load, d, run.video_path[1]))
                /\ run' = [stepped("cleanup", <<Event("record", d, "")>>)
                           EXCEPT !.created = @ + 1]
    /\ UNCHANGED <<files, today, last, frames, collab, channel>>

\* finally: cleanup_frames(); then the next date, or "return created"
build_cleanup ==
    /\ run.pc = "cleanup"
    /\ frames' = NoFrames
    /\ LET cleaned == <<Event("cleanup", date_str_of(run), "")>>
       IN  IF run.i < Len(run.need_video)
           THEN /\ run' = [stepped("fetch", cleaned)
                           EXCEPT !.i = @ + 1, !.frame_paths = <<>>,
                                  !.video_path = <<>>]
                /\ UNCHANGED last
           ELSE /\ run' = stepped("returned", cleaned)
                /\ last' = Call("create_missing_videos", run.dates,
                                IntValue(run.created), run.log \o cleaned)
    /\ UNCHANGED <<tracking_file, data_dir, files, today, collab, channel>>

-----------------------------------------------------------------------------
(* src/main.py: upload_missing_videos, one step for each call it makes *)

\* The frame of a call of upload_missing_videos(dates)
upload_called(dates, pc, need_upload) ==
    [pc |-> pc, calls |-> run.calls + 1, dates |-> dates,
     need_upload |-> need_upload, i |-> 1, uploaded |-> 0,
     existing_titles |-> EmptyDict, video_path |-> <<>>, video_id |-> "",
     log |-> <<>>, at_start |-> tracking_file, on_channel |-> channel,
     prev |-> previous]

\* get_uploaded_video_titles(service): the titles of the channel with the id
\* of one of the videos that carry the title
listings(videos) ==
    {f \in [{v.title : v \in videos} -> {v.id : v \in videos}] :
        \A t \in DOMAIN f : [title |-> t, id |-> f[t]] \in videos}

\* The frame at the end of an iteration that printed evs: the next date, or
\* "return uploaded"
upload_next(r, evs) ==
    IF r.i < Len(r.need_upload)
    THEN [r EXCEPT !.pc = "title", !.i = @ + 1, !.log = @ \o evs,
                   !.video_path = <<>>, !.video_id = ""]
    ELSE [r EXCEPT !.pc = "returned", !.log = @ \o evs]

\* What the call returns when the frame r is its last one
upload_return(r) ==
    IF r.pc = "returned"
    THEN last' = Call("upload_missing_videos", r.dates, IntValue(r.uploaded),
                      r.log)
    ELSE UNCHANGED last

\* upload_missing_videos takes every date of the list as needing an upload
upload_start_unfiltered(dates) ==
    /\ run.pc \in {"idle", "returned", "raised"}
    /\ run.calls < MaxCalls
    /\ mkdir
    /\ IF _load_result.kind = "raise"
       THEN /\ run' = upload_called(dates, "raised", <<>>)
            /\ last' = Call("upload_missing_videos", dates, _load_result, <<>>)
       ELSE /\ run' = upload_called(dates, "auth", dates)
            /\ UNCHANGED last
    /\ UNCHANGED <<tracking_file, files, today, frames, collab, channel>>

\* upload_missing_videos takes the dates that needed an upload when the call
\* before it started
upload_start_stale(dates) ==
    /\ run.pc \in {"idle", "returned", "raised"}
    /\ run.calls < MaxCalls
    /\ mkdir
    /\ IF _load_result.kind = "raise"
       THEN /\ run' = upload_called(dates, "raised", <<>>)
            /\ last' = Call("upload_missing_videos", dates, _load_result, <<>>)
       ELSE LET before == IF "at_start" \in DOMAIN run THEN run.at_start.data
                          ELSE _load
                need_upload ==
                    SelectSeq(get_dates_needing_upload(dates),
                              LAMBDA d : d \in DOMAIN before)
            IN  IF need_upload = <<>>
                THEN /\ run' = upload_called(dates, "returned", need_upload)
                     /\ last' = Call("upload_missing_videos", dates,
                                     IntValue(0), <<>>)
                ELSE /\ run' = upload_called(dates, "auth", need_upload)
                     /\ UNCHANGED last
    /\ UNCHANGED <<tracking_file, files, today, frames, collab, channel>>

\* upload_missing_videos up to the authentication:
\* get_dates_needing_upload(dates) raises what _load() raises; without a
\* date that needs an upload the call returns 0
upload_start(dates) ==
    /\ run.pc \in {"idle", "returned", "raised"}
    /\ run.calls < MaxCalls
    /\ mkdir
    /\ IF _load_result.kind = "raise"
       THEN /\ run' = upload_called(dates, "raised", <<>>)
            /\ last' = Call("upload_missing_videos", dates, _load_result, <<>>)
       ELSE LET need_upload == get_dates_needing_upload(dates)
            IN  IF need_upload = <<>>
                THEN /\ run' = upload_called(dates, "returned", need_upload)
                     /\ last' = Call("upload_missing_videos", dates,
                                     IntValue(0), <<>>)
                ELSE /\ run' = upload_called(dates, "auth", need_upload)
                     /\ UNCHANGED last
    /\ UNCHANGED <<tracking_file, files, today, frames, collab, channel>>

\* upload_missing_videos goes on to the listing after the authentication failed
upload_auth_proceeding(ok) ==
    /\ run.pc = "auth"
    /\ run' = [run EXCEPT !.pc = "listing",
                   !.log = @ \o <<Event("auth", <<>>,
                                        IF ok THEN "" ELSE "Error")>>]
    /\ UNCHANGED <<tracking_file, data_dir, files, today, last, frames, collab,
                   channel>>

\* service = get_authenticated_service(): an exception ends the call with 0
upload_auth(ok) ==
    /\ run.pc = "auth"
    /\ LET r == IF ok
                THEN [run EXCEPT !.pc = "listing",
                                 !.log = @ \o <<Event("auth", <<>>, "")>>]
                ELSE [run EXCEPT !.pc = "returned",
                                 !.log = @ \o <<Event("auth", <<>>, "Error")>>]
       IN  /\ run' = r
           /\ upload_return(r)
    /\ UNCHANGED <<tracking_file, data_dir, files, today, frames, collab,
                   channel>>

\* upload_missing_videos returns 0 where the listing cannot be fetched
upload_listing_aborting(ok) ==
    /\ run.pc = "listing"
    /\ IF ok
       THEN /\ \E titles \in listings(channel) :
                  run' = [run EXCEPT !.pc = "title",
                              !.existing_titles = titles,
                              !.log = @ \o <<Event("listing", <<>>, "")>>]
            /\ UNCHANGED last
       ELSE /\ run' = [run EXCEPT !.pc = "returned",
                           !.log = @ \o <<Event("listing", <<>>, "Error")>>]
            /\ last' = Call("upload_missing_videos", run.dates, IntValue(0),
                            run'.log)
    /\ UNCHANGED <<tracking_file, data_dir, files, today, frames, collab,
                   channel>>

\* existing_titles = get_uploaded_video_titles(service), or {} where the
\* call raises
upload_listing(ok) ==
    /\ run.pc = "listing"
    /\ IF ok
       THEN \E titles \in listings(channel) :
               run' = [run EXCEPT !.pc = "title", !.existing_titles = titles,
                           !.log = @ \o <<Event("listing", <<>>, "")>>]
       ELSE run' = [run EXCEPT !.pc = "title",
                        !.log = @ \o <<Event("listing", <<>>, "Error")>>]
    /\ UNCHANGED <<tracking_file, data_dir, files, today, last, frames, collab,
                   channel>>

\* The loop body without the look at the listing
upload_check_unlisted ==
    /\ run.pc = "title"
    /\ LET d == run.need_upload[run.i]
           entry == get_entry(d)
       IN  IF _load_result.kind = "raise"
           THEN /\ run' = [run EXCEPT !.pc = "raised",
                               !.log = @ \o <<Event("failed", d,
                                                    _load_result.val)>>]
                /\ last' = Call("upload_missing_videos", run.dates,
                                _load_result, run.log)
           ELSE IF entry = <<>> \/ ~truthy(entry[1], "video_path")
           THEN LET r == upload_next(run, <<Event("skip", d, "no path")>>)
                IN  run' = r /\ upload_return(r)
           ELSE IF ~exists(entry[1].video_path)
           THEN LET r == upload_next(run, <<Event("skip", d, "no file")>>)
                IN  run' = r /\ upload_return(r)
           ELSE /\ run' = [run EXCEPT !.pc = "publish",
                               !.video_path = <<entry[1].video_path>>]
                /\ UNCHANGED last
    /\ mkdir
    /\ UNCHANGED <<tracking_file, files, today, frames, collab, channel>>

\* The loop body without the look at the video file
upload_check_unchecked ==
    /\ run.pc = "title"
    /\ LET d == run.need_upload[run.i]
           title == video_title(d)
           entry == get_entry(d)
       IN  IF _load_result.kind = "raise"
           THEN /\ mkdir
                /\ run' = [run EXCEPT !.pc = "raised",
                               !.log = @ \o <<Event("failed", d,
                                                    _load_result.val)>>]
                /\ last' = Call("upload_missing_videos", run.dates,
                                _load_result, run.log)
                /\ UNCHANGED tracking_file
           ELSE IF title \in DOMAIN run.existing_titles
           THEN LET r == upload_next([run EXCEPT !.uploaded = @ + 1],
                            <<Event("on_remote", d, run.existing_titles[title])>>)
                IN  /\ _save(with_uploaded(_load, d, run.existing_titles[title]))
                    /\ run' = r
                    /\ upload_return(r)
           ELSE IF entry = <<>> \/ ~truthy(entry[1], "video_path")
           THEN LET r == upload_next(run, <<Event("skip", d, "no path")>>)
                IN  /\ mkdir
                    /\ run' = r
                    /\ upload_return(r)
                    /\ UNCHANGED tracking_file
           ELSE /\ mkdir
                /\ run' = [run EXCEPT !.pc = "publish",
                               !.video_path = <<entry[1].video_path>>]
                /\ UNCHANGED <<tracking_file, last>>
    /\ UNCHANGED <<files, today, frames, collab, channel>>

\* The loop body looks for the date string among the titles of the listing
upload_check_by_date ==
    /\ run.pc = "title"
    /\ LET d == run.need_upload[run.i]
           title == video_title(d)
           entry == get_entry(d)
       IN  IF _load_result.kind = "raise"
           THEN /\ mkdir
                /\ run' = [run EXCEPT !.pc = "raised",
                               !.log = @ \o <<Event("failed", d,
                                                    _load_result.val)>>]
                /\ last' = Call("upload_missing_videos", run.dates,
                                _load_result, run.log)
                /\ UNCHANGED tracking_file
           ELSE IF d \in DOMAIN run.existing_titles
           THEN LET r == upload_next([run EXCEPT !.uploaded = @ + 1],
                            <<Event("on_remote", d, run.existing_titles[d])>>)
                IN  /\ _save(with_uploaded(_load, d, run.existing_titles[d]))
                    /\ run' = r
                    /\ upload_return(r)
           ELSE IF entry = <<>> \/ ~truthy(entry[1], "video_path")
           THEN LET r == upload_next(run, <<Event("skip", d, "no path")>>)
                IN  /\ mkdir
                    /\ run' = r
                    /\ upload_return(r)
                    /\ UNCHANGED tracking_file
           ELSE IF ~exists(entry[1].video_path)
           THEN LET r == upload_next(run, <<Event("skip", d, "no file")>>)
                IN  /\ mkdir
                    /\ run' = r
                    /\ upload_return(r)
                    /\ UNCHANGED tracking_file
           ELSE /\ mkdir
                /\ run' = [run EXCEPT !.pc = "publish",
                               !.video_path = <<entry[1].video_path>>]
                /\ UNCHANGED <<tracking_file, last>>
    /\ UNCHANGED <<files, today, frames, collab, channel>>

\* The loop body up to upload_video: a date whose title is listed is marked
\* uploaded with the listed id; otherwise the entry is looked up, and a date
\* without a path or without a file is skipped.  What _load() raises here is
\* outside every try block and ends the call.
upload_check ==
    /\ run.pc = "title"
    /\ LET d == run.need_upload[run.i]
           title == video_title(d)
           entry == get_entry(d)
       IN  IF _load_result.kind = "raise"
           THEN /\ mkdir
                /\ run' = [run EXCEPT !.pc = "raised",
                               !.log = @ \o <<Event("failed", d,
                                                    _load_result.val)>>]
                /\ last' = Call("upload_missing_videos", run.dates,
                                _load_result, run.log)
                /\ UNCHANGED tracking_file
           ELSE IF title \in DOMAIN run.existing_titles
           THEN LET r == upload_next([run EXCEPT !.uploaded = @ + 1],
                            <<Event("on_remote", d, run.existing_titles[title])>>)
                IN  /\ _save(with_uploaded(_load, d, run.existing_titles[title]))
                    /\ run' = r
                    /\ upload_return(r)
           ELSE IF entry = <<>> \/ ~truthy(entry[1], "video_path")
           THEN LET r == upload_next(run, <<Event("skip", d, "no path")>>)
                IN  /\ mkdir
                    /\ run' = r
                    /\ upload_return(r)
                    /\ UNCHANGED tracking_file
           ELSE IF ~exists(entry[1].video_path)
           THEN LET r == upload_next(run, <<Event("skip", d, "no file")>>)
                IN  /\ mkdir
                    /\ run' = r
                    /\ upload_return(r)
                    /\ UNCHANGED tracking_file
           ELSE /\ mkdir
                /\ run' = [run EXCEPT !.pc = "publish",
                               !.video_path = <<entry[1].video_path>>]
                /\ UNCHANGED <<tracking_file, last>>
    /\ UNCHANGED <<files, today, frames, collab, channel>>

\* The loop records the upload whatever upload_video returned
upload_publish_unguarded(outcome) ==
    /\ run.pc = "publish"
    /\ outcome = "id" => Cardinality(channel) < MaxVideos
    /\ LET d == run.need_upload[run.i]
           published == Event("publish", d, "")
           video_id == IdNames[Cardinality(channel) + 1]
       IN  IF ~exists(run.video_path[1]) \/ outcome = "none"
           THEN /\ run' = [run EXCEPT !.pc = "mark", !.video_id = "",
                               !.log = @ \o <<published>>]
                /\ UNCHANGED <<last, channel>>
           ELSE IF outcome = "raise"
           THEN LET r == upload_next(run,
                            <<published, Event("failed", d, "Error")>>)
                IN  run' = r /\ upload_return(r) /\ UNCHANGED channel
           ELSE /\ channel' = channel \cup
                       {[title |-> video_title(d), id |-> video_id]}
                /\ run' = [run EXCEPT !.pc = "mark", !.video_id = video_id,
                               !.log = @ \o <<published>>]
                /\ UNCHANGED last
    /\ UNCHANGED <<tracking_file, data_dir, files, today, frames, collab>>

\* video_id = upload_video(service, video_path, date_str): None without the
\* file; otherwise the video is on the channel under a new id, or None is
\* returned after the attempts failed, or the call raises.  The channel
\* takes no video beyond MaxVideos.
upload_publish(outcome) ==
    /\ run.pc = "publish"
    /\ outcome = "id" => Cardinality(channel) < MaxVideos
    /\ LET d == run.need_upload[run.i]
           published == Event("publish", d, "")
           video_id == IdNames[Cardinality(channel) + 1]
       IN  IF ~exists(run.video_path[1]) \/ outcome = "none"
           THEN LET r == upload_next(run, <<published, Event("no id", d, "")>>)
                IN  run' = r /\ upload_return(r) /\ UNCHANGED channel
           ELSE IF outcome = "raise"
           THEN LET r == upload_next(run,
                            <<published, Event("failed", d, "Error")>>)
                IN  run' = r /\ upload_return(r) /\ UNCHANGED channel
           ELSE /\ channel' = channel \cup
                       {[title |-> video_title(d), id |-> video_id]}
                /\ run' = [run EXCEPT !.pc = "mark", !.video_id = video_id,
                               !.log = @ \o <<published>>]
                /\ UNCHANGED last
    /\ UNCHANGED <<tracking_file, data_dir, files, today, frames, collab>>

\* The loop body counts the upload and does not record it in the ledger
upload_mark_unsaved ==
    /\ run.pc = "mark"
    /\ LET d == run.need_upload[run.i]
       IN  IF _load_result.kind = "raise"
           THEN LET r == upload_next(run,
                            <<Event("mark", d, run.video_id),
                              Event("failed", d, _load_result.val)>>)
                IN  /\ mkdir
                    /\ run' = r
                    /\ upload_return(r)
                    /\ UNCHANGED tracking_file
           ELSE LET r == upload_next([run EXCEPT !.uploaded = @ + 1],
                            <<Event("mark", d, run.video_id)>>)
                IN  /\ mkdir /\ UNCHANGED tracking_file
                    /\ run' = r
                    /\ upload_return(r)
    /\ UNCHANGED <<files, today, frames, collab, channel>>

\* mark_uploaded(date_str, video_id) and uploaded += 1 inside the try block:
\* what _load() raises is caught and printed
upload_mark ==
    /\ run.pc = "mark"
    /\ LET d == run.need_upload[run.i]
       IN  IF _load_result.kind = "raise"
           THEN LET r == upload_next(run,
                            <<Event("mark", d, run.video_id),
                              Event("failed", d, _load_result.val)>>)
                IN  /\ mkdir
                    /\ run' = r
                    /\ upload_return(r)
                    /\ UNCHANGED tracking_file
           ELSE LET r == upload_next([run EXCEPT !.uploaded = @ + 1],
                            <<Event("mark", d, run.video_id)>>)
                IN  /\ _save(with_uploaded(_load, d, run.video_id))
                    /\ run' = r
                    /\ upload_return(r)
    /\ UNCHANGED <<files, today, frames, collab, channel>>

\* A video file is removed from output/ while the upload phase runs
remove_file(f) ==
    /\ run.pc \in {"auth", "listing", "title", "publish"}
    /\ f \in files
    /\ files' = files \ {f}
    /\ UNCHANGED <<tracking_file, data_dir, today, last, frames, run, collab,
                   channel>>

\* cleanup_old_entries(keep_days=30) between two calls of the orchestrators;
\* it raises what _load() raises
\* The purge keeps the records of a week
purge_between_week ==
    /\ run.pc \in {"idle", "returned"}
    /\ last.op # "cleanup_old_entries"
    /\ IF _load_result.kind = "raise"
       THEN /\ mkdir
            /\ last' = Call("cleanup_old_entries", 30, _load_result, <<>>)
            /\ UNCHANGED <<tracking_file, files, today, frames, run, collab,
                           channel>>
       ELSE cleanup_old_entries(7)

purge_between ==
    /\ run.pc \in {"idle", "returned"}
    /\ last.op # "cleanup_old_entries"
    /\ IF _load_result.kind = "raise"
       THEN /\ mkdir
            /\ last' = Call("cleanup_old_entries", 30, _load_result, <<>>)
            /\ UNCHANGED <<tracking_file, files, today, frames, run, collab,
                           channel>>
       ELSE cleanup_old_entries(30)

-----------------------------------------------------------------------------
(* src/utils/youtube_upload.py: upload_video, one step for each attempt *)

MAX_RETRIES == 3

\* What an attempt meets: the insert answers with the id of the video, or
\* the request or one of its chunks raises HttpError or another exception
AttemptResults == {"id", "HttpError", "Exception"}

\* upload_video(service, video_path, date_str) up to the loop: None without
\* the file, otherwise the title is computed and the first attempt is next
publish_call(video_path, date_str) ==
    /\ run.pc \in {"idle", "returned"}
    /\ run.calls < MaxCalls
    /\ IF ~exists(video_path)
       THEN /\ run' = [pc |-> "returned", calls |-> run.calls + 1,
                       date |-> date_str, video_path |-> video_path,
                       title |-> <<>>, attempt |-> 0, log |-> <<>>,
                       on_channel |-> channel]
            /\ last' = Call("upload_video", <<video_path, date_str>>, None,
                            <<>>)
       ELSE /\ run' = [pc |-> "insert", calls |-> run.calls + 1,
                       date |-> date_str, video_path |-> video_path,
                       title |-> make_video_title(date_str), attempt |-> 1,
                       log |-> <<>>, on_channel |-> channel]
            /\ UNCHANGED last
    /\ UNCHANGED <<tracking_file, data_dir, files, today, frames, collab,
                   channel>>

\* The loop makes one attempt more than MAX_RETRIES
publish_attempt_once_more(result) ==
    /\ run.pc = "insert"
    /\ result = "id" => Cardinality(channel) < MaxVideos
    /\ LET log == Append(run.log, result)
           video_id == IdNames[Cardinality(channel) + 1]
           arg == <<run.video_path, run.date>>
       IN  IF result = "id"
           THEN /\ channel' = channel \cup
                       {[title |-> run.title, id |-> video_id]}
                /\ run' = [run EXCEPT !.pc = "returned", !.log = log]
                /\ last' = Call("upload_video", arg, StrValue(video_id), log)
           ELSE IF run.attempt <= MAX_RETRIES
           THEN /\ run' = [run EXCEPT !.attempt = @ + 1, !.log = log]
                /\ UNCHANGED <<last, channel>>
           ELSE /\ run' = [run EXCEPT !.pc = "returned", !.log = log]
                /\ last' = Call("upload_video", arg, None, log)
                /\ UNCHANGED channel
    /\ UNCHANGED <<tracking_file, data_dir, files, today, frames, collab>>

\* One pass of "for attempt in range(1, MAX_RETRIES + 1)": the id of the
\* response is returned; after an exception the loop sleeps and goes on if
\* attempt < MAX_RETRIES and returns None otherwise.  The channel takes no
\* video beyond MaxVideos.
publish_attempt(result) ==
    /\ run.pc = "insert"
    /\ result = "id" => Cardinality(channel) < MaxVideos
    /\ LET log == Append(run.log, result)
           video_id == IdNames[Cardinality(channel) + 1]
           arg == <<run.video_path, run.date>>
       IN  IF result = "id"
           THEN /\ channel' = channel \cup
                       {[title |-> run.title, id |-> video_id]}
                /\ run' = [run EXCEPT !.pc = "returned", !.log = log]
                /\ last' = Call("upload_video", arg, StrValue(video_id), log)
           ELSE IF run.attempt < MAX_RETRIES
           THEN /\ run' = [run EXCEPT !.attempt = @ + 1, !.log = log]
                /\ UNCHANGED <<last, channel>>
           ELSE /\ run' = [run EXCEPT !.pc = "returned", !.log = log]
                /\ last' = Call("upload_video", arg, None, log)
                /\ UNCHANGED channel
    /\ UNCHANGED <<tracking_file, data_dir, files, today, frames, collab>>

-----------------------------------------------------------------------------
(* src/main.py: main, one step for each call of its try block *)

LOOKBACK_DAYS == 14

\* The characters of a date string in the order of their code points
Chars == <<"-", "0", "1", "2", "3", "4", "5", "6", "7", "8", "9">>

code_point(c) == CHOOSE n \in 1..Len(Chars) : Chars[n] = c

\* a < b for two strings
RECURSIVE str_less(_, _)
str_less(a, b) ==
    IF b = <<>> THEN FALSE
    ELSE IF a = <<>> THEN TRUE
    ELSE IF a[1] # b[1] THEN code_point(a[1]) < code_point(b[1])
    ELSE str_less(Tail(a), Tail(b))

\* list.sort() and sorted() of a list of strings
RECURSIVE sorted(_)
sorted(l) ==
    IF l = <<>> THEN <<>>
    ELSE LET rest == sorted(Tail(l))
             before == SelectSeq(rest, LAMBDA x : ~str_less(l[1], x))
             after == SelectSeq(rest, LAMBDA x : str_less(l[1], x))
         IN  before \o <<l[1]>> \o after

\* get_recent_epic_dates(api_key): what get_available_dates raises, the
\* ValueError of strptime for a string that is no date, or the sorted dates
\* of the last LOOKBACK_DAYS days
get_recent_epic_dates(archive) ==
    IF archive.kind = "raise" THEN archive
    ELSE IF \E k \in 1..Len(archive.val) : ~strptime(archive.val[k]).ok
    THEN Raise("ValueError")
    ELSE LET cutoff == today - LOOKBACK_DAYS
         IN  List(sorted(SelectSeq(archive.val,
                    LAMBDA d : /\ cutoff <= strptime(d).ord
                               /\ strptime(d).ord <= today)))

\* The step of main whose outcome is the last one
MainSteps == {"get_recent_epic_dates", "create_missing_videos",
              "upload_missing_videos", "cleanup_old_entries", "print_summary"}

\* Step 1: recent_dates = get_recent_epic_dates(nasa_api_key)
main_dates(archive) ==
    /\ last.op = "start"
    /\ run.pc = "idle"
    /\ last' = Call("get_recent_epic_dates", <<>>,
                    get_recent_epic_dates(archive), <<>>)
    /\ UNCHANGED <<tracking_file, data_dir, files, today, frames, run, collab,
                   channel>>

\* Step 2: create_missing_videos(recent_dates, nasa_api_key), reached with
\* a list that is not empty
main_build ==
    /\ last.op = "get_recent_epic_dates"
    /\ last.ret.kind = "list"
    /\ last.ret.val # <<>>
    /\ run.pc = "idle"
    /\ build_start(last.ret.val)

\* main goes on to step 3 whatever step 2 ended with
main_upload_regardless ==
    /\ last.op = "create_missing_videos"
    /\ run.pc \in {"returned", "raised"}
    /\ upload_start(last.arg)

\* Step 3: upload_missing_videos(recent_dates), reached when step 2 returned
main_upload ==
    /\ last.op = "create_missing_videos"
    /\ last.ret.kind = "int"
    /\ run.pc = "returned"
    /\ upload_start(last.arg)

\* Step 4: cleanup_old_entries(keep_days=30), reached when step 3 returned
main_purge ==
    /\ last.op = "upload_missing_videos"
    /\ last.ret.kind = "int"
    /\ run.pc = "returned"
    /\ purge_between

\* print_summary(recent_dates): it raises what _load() raises, and prints a
\* row for each date in sorted order
main_summary ==
    /\ last.op = "cleanup_old_entries"
    /\ last.ret.kind = "None"
    /\ mkdir
    /\ IF _load_result.kind = "raise"
       THEN last' = Call("print_summary", run.dates, _load_result, <<>>)
       ELSE LET dates == sorted(run.dates)
                entry(d) == IF d \in DOMAIN _load THEN _load[d] ELSE EmptyDict
                row(d) ==
                    [date |-> d,
                     video |-> IF is_video_created(d) THEN "YES" ELSE "NO",
                     uploaded |-> IF truthy(entry(d), "youtube_uploaded")
                                  THEN "YES" ELSE "NO",
                     yt_id |-> IF "youtube_video_id" \in DOMAIN entry(d)
                               THEN entry(d).youtube_video_id ELSE "-"]
            IN  last' = Call("print_summary", run.dates, None,
                             [k \in 1..Len(dates) |-> row(dates[k])])
    /\ UNCHANGED <<tracking_file, files, today, frames, run, collab, channel>>

\* The end of main: sys.exit(1) in the handler of an exception of a step,
\* the return without recent dates, or the end of the try block
main_exit ==
    /\ last.op \in MainSteps
    /\ run.pc \in {"idle", "returned", "raised"}
    /\ \/ last.ret.kind = "raise"
       \/ last.op = "print_summary"
       \/ /\ last.op = "get_recent_epic_dates"
          /\ last.ret.kind = "list"
          /\ last.ret.val = <<>>
    /\ last' = Call("main", last.op,
                    IntValue(IF last.ret.kind = "raise" THEN 1 ELSE 0),
                    IF last.ret.kind = "raise" THEN <<"FATAL ERROR">> ELSE <<>>)
    /\ UNCHANGED <<tracking_file, data_dir, files, today, frames, run, collab,
                   channel>>

\* The ledger file is left cut short while a phase runs: another writer of
\* the file is killed inside _save
damage ==
    /\ run.pc \in {"fetch", "download", "render", "record", "cleanup",
                   "auth", "listing", "title", "publish", "mark"}
    /\ tracking_file.exists
    /\ tracking_file.form = "object"
    /\ tracking_file' = [exists |-> TRUE, form |-> "cut", data |-> EmptyDict]
    /\ UNCHANGED <<data_dir, files, today, last, frames, run, collab, channel>>

-----------------------------------------------------------------------------
(* Specifications *)

Init ==
    /\ tracking_file = [exists |-> FALSE, form |-> "empty", data |-> EmptyDict]
    /\ data_dir = FALSE
    /\ files = {}
    /\ today = StartDay
    /\ last = Call("start", <<>>, None, <<>>)
    /\ frames = NoFrames
    /\ run = Idle
    /\ collab = [d \in DateKeys |-> Fine]
    /\ channel = {}

\* The ledger, the renderer's output and the clock
Next ==
    \/ \E d \in DateKeys, p \in VideoPaths : mark_video_created(d, p)
    \/ \E d \in DateKeys, id \in LedgerIds : mark_uploaded(d, id)
    \/ call_get_all_entries
    \/ \E d \in DateKeys : call_get_entry(d)
    \/ \E d \in DateKeys : call_is_video_created(d)
    \/ \E d \in DateKeys : call_is_uploaded(d)
    \/ \E l \in DateLists : call_get_dates_needing_video(l)
    \/ \E l \in DateLists : call_get_dates_needing_upload(l)
    \/ \E n \in KeepDays : cleanup_old_entries(n)
    \/ \E p \in VideoPaths, ok \in BOOLEAN : create_video(p, ok)
    \/ Tick

Spec == Init /\ [][Next]_vars

\* The flows of the TUI over a ledger written by the two mutators
TuiNext ==
    \/ \E d \in DateKeys, p \in VideoPaths : mark_video_created(d, p)
    \/ \E d \in DateKeys, id \in VideoIds : mark_uploaded(d, id)
    \/ \E p \in VideoPaths : create_video(p, TRUE)
    \/ \E d \in DateKeys, b \in BOOLEAN : action_regenerate_video(d, b)
    \/ \E d \in DateKeys, b \in BOOLEAN : action_delete_local(d, b)
    \/ \E b \in BOOLEAN : batch_regenerate_all(b)
    \/ \E d \in DateKeys, a \in RemoveAnswers : action_remove_from_youtube(d, a)
    \/ \E a \in BOOLEAN, t \in Listings, l \in SyncDates : youtube_sync(a, t, l)

TuiSpec == Init /\ [][TuiNext]_vars

\* The flows of the TUI that upload, re-upload and remove a video, over a
\* ledger with created videos
RemoteNext ==
    \/ \E d \in DateKeys : mark_video_created(d, AbsVideo)
    \/ create_video(AbsVideo, TRUE)
    \/ \E d \in DateKeys, a \in UploadAnswers : action_upload_video(d, a)
    \/ \E d \in DateKeys, a \in ReuploadAnswers : action_reupload_video(d, a)
    \/ \E d \in DateKeys, a \in RemoveAnswers : action_remove_from_youtube(d, a)

RemoteSpec == Init /\ [][RemoteNext]_vars

\* The purge over a ledger that also holds keys that are no dates
PurgeNext ==
    \/ \E d \in PurgeKeys : mark_video_created(d, AbsVideo)
    \/ \E n \in KeepDays : cleanup_old_entries(n)
    \/ Tick

PurgeSpec == Init /\ [][PurgeNext]_vars

\* The mutators at the grain of the writes of _save, a process that can be
\* killed, and _load
StoreNext ==
    \/ \E m \in Mutations : save_open(m)
    \/ save_write
    \/ save_close
    \/ kill
    \/ restart
    \/ call_load

StoreSpec == Init /\ [][StoreNext]_vars

\* The build phase starts with an empty ledger, with or without the frames
\* of a killed run, and with collaborators whose answers do not change
BuildInit ==
    /\ tracking_file = [exists |-> FALSE, form |-> "empty", data |-> EmptyDict]
    /\ data_dir = FALSE
    /\ files = {}
    /\ today = StartDay
    /\ last = Call("start", <<>>, None, <<>>)
    /\ frames \in {NoFrames, StaleFrames}
    /\ run = Idle
    /\ collab \in [DateKeys -> Answers]
    /\ channel = {}

BuildNext ==
    \/ \E dates \in BuildLists : build_start(dates)
    \/ build_fetch
    \/ build_download
    \/ build_render
    \/ build_record
    \/ build_cleanup

BuildSpec == BuildInit /\ [][BuildNext]_vars

\* The build phase over a ledger file that can be left cut short
FaultNext ==
    \/ BuildNext
    \/ damage

FaultSpec == BuildInit /\ [][FaultNext]_vars

\* The phases of the daily run start with an empty ledger, collaborators
\* that succeed and a channel that is empty or holds an earlier upload
UploadInit ==
    /\ tracking_file = [exists |-> FALSE, form |-> "empty", data |-> EmptyDict]
    /\ data_dir = FALSE
    /\ files = {}
    /\ today = StartDay
    /\ last = Call("start", <<>>, None, <<>>)
    /\ frames = NoFrames
    /\ run = Idle
    /\ collab = [d \in DateKeys |-> Fine]
    /\ channel \in {{}, {OldVideo}}

UploadNext ==
    \/ \E dates \in UploadLists : build_start(dates)
    \/ build_fetch
    \/ build_download
    \/ build_render
    \/ build_record
    \/ build_cleanup
    \/ \E dates \in UploadLists : upload_start(dates)
    \/ \E ok \in BOOLEAN : upload_auth(ok)
    \/ \E ok \in BOOLEAN : upload_listing(ok)
    \/ upload_check
    \/ \E outcome \in PublishOutcomes : upload_publish(outcome)
    \/ upload_mark
    \/ \E f \in files : remove_file(f)
    \/ purge_between
    \/ Tick

UploadSpec == UploadInit /\ [][UploadNext]_vars

\* The phases of the daily run with a ledger file that another writer leaves
\* cut short
UploadFaultNext == UploadNext \/ damage

UploadFaultSpec == UploadInit /\ [][UploadFaultNext]_vars

\* Runs of the two phases one after the other over duplicate-free lists, each of which may be killed at any step; the listing is fetched
RepeatLists == {<<K_0102, K_0201>>, <<K_0201>>}

RepeatNext ==
    \/ \E dates \in RepeatLists : build_start(dates)
    \/ build_fetch
    \/ build_download
    \/ build_render
    \/ build_record
    \/ build_cleanup
    \/ \E dates \in RepeatLists : upload_start(dates)
    \/ \E ok \in BOOLEAN : upload_auth(ok)
    \/ upload_listing(TRUE)
    \/ upload_check
    \/ \E outcome \in PublishOutcomes : upload_publish(outcome)
    \/ upload_mark
    \/ crash
    \/ restart

RepeatSpec == UploadInit /\ [][RepeatNext]_vars

\* upload_video is called for a video file that exists or not, with a
\* channel that is empty or holds an earlier upload
PublishInit ==
    /\ tracking_file = [exists |-> FALSE, form |-> "empty", data |-> EmptyDict]
    /\ data_dir = FALSE
    /\ files \in {{}, {AbsVideo}}
    /\ today = StartDay
    /\ last = Call("start", <<>>, None, <<>>)
    /\ frames = NoFrames
    /\ run = Idle
    /\ collab = [d \in DateKeys |-> Fine]
    /\ channel \in {{}, {OldVideo}}

PublishNext ==
    \/ \E date_str \in DateKeys : publish_call(AbsVideo, date_str)
    \/ \E result \in AttemptResults : publish_attempt(result)

\* An attempt ends: the requests of the client library time out and the
\* sleep between two attempts is RETRY_DELAY seconds
PublishSpec ==
    /\ PublishInit
    /\ [][PublishNext]_vars
    /\ WF_vars(\E result \in AttemptResults : publish_attempt(result))

\* The daily run starts on a day of January or of February 2026, without a
\* ledger file or with one that an earlier run left cut short, and with
\* collaborators that succeed
\* The ledger an earlier run left: the record of a video created on
\* 2025-12-31, whose file is gone
OldLedger ==
    with_entry(EmptyDict, K_1231,
        [video_created |-> TRUE,
         video_path |-> resolve(AbsVideo),
         created_at |-> toordinal(2025, 12, 31)])

MainInit ==
    /\ tracking_file \in
          {[exists |-> FALSE, form |-> "empty", data |-> EmptyDict],
           [exists |-> TRUE, form |-> "cut", data |-> EmptyDict],
           [exists |-> TRUE, form |-> "object", data |-> OldLedger]}
    /\ data_dir = tracking_file.exists
    /\ files = {}
    /\ today \in {toordinal(2026, 1, 10), StartDay}
    /\ last = Call("start", <<>>, None, <<>>)
    /\ frames = NoFrames
    /\ run = Idle
    /\ collab = [d \in DateKeys |-> Fine]
    /\ channel \in {{}, {OldVideo}}

MainNext ==
    \/ \E archive \in Archives : main_dates(archive)
    \/ main_build
    \/ build_fetch
    \/ build_download
    \/ build_render
    \/ build_record
    \/ build_cleanup
    \/ main_upload
    \/ \E ok \in BOOLEAN : upload_auth(ok)
    \/ \E ok \in BOOLEAN : upload_listing(ok)
    \/ upload_check
    \/ \E outcome \in PublishOutcomes : upload_publish(outcome)
    \/ upload_mark
    \/ main_purge
    \/ main_summary
    \/ main_exit
    \/ damage

MainSpec == MainInit /\ [][MainNext]_vars

\* The daily run repeated: each run may be killed at any step, and the next
\* one starts after the run before it has ended or was killed.  The
\* collaborators of the build answer every run in the same way.
DailyInit ==
    /\ tracking_file \in
          {[exists |-> FALSE, form |-> "empty", data |-> EmptyDict],
           [exists |-> TRUE, form |-> "cut", data |-> EmptyDict],
           [exists |-> TRUE, form |-> "object", data |-> OldLedger]}
    /\ data_dir = tracking_file.exists
    /\ files = {}
    /\ today \in {toordinal(2026, 1, 10), StartDay}
    /\ last = Call("start", <<>>, None, <<>>)
    /\ frames = NoFrames
    /\ run = Idle
    /\ collab \in {[d \in DateKeys |-> a] : a \in {Fine, OneImage, NoRender}}
    /\ channel \in {{}, {OldVideo}}

\* The steps of a run of main
DailySteps ==
    \/ \E archive \in Archives : main_dates(archive)
    \/ main_build
    \/ build_fetch
    \/ build_download
    \/ build_render
    \/ build_record
    \/ build_cleanup
    \/ main_upload
    \/ \E ok \in BOOLEAN : upload_auth(ok)
    \/ \E ok \in BOOLEAN : upload_listing(ok)
    \/ upload_check
    \/ \E outcome \in PublishOutcomes : upload_publish(outcome)
    \/ upload_mark
    \/ main_purge
    \/ main_summary
    \/ main_exit

DailyNext ==
    \/ DailySteps
    \/ crash
    \/ restart
    \/ next_run

\* A run that is not killed goes on to its next step
DailySpec == DailyInit /\ [][DailyNext]_vars /\ WF_vars(DailySteps)

-----------------------------------------------------------------------------
(* Properties of the ledger: reads *)

\* The mapping the ledger file holds
Stored == tracking_file.data

\* The record of date d carries flag with the value true
FlagSet(d, flag) ==
    /\ d \in DOMAIN Stored
    /\ flag \in DOMAIN Stored[d]
    /\ Stored[d][flag] = TRUE

\* A file exists at the video path of the record of date d
FileAtPath(d) ==
    /\ d \in DOMAIN Stored
    /\ "video_path" \in DOMAIN Stored[d]
    /\ Stored[d].video_path \in files

\* C1: is_video_created(d) returns true if and only if a record for d
\* exists, its video_created flag is true and a file exists at its
\* video_path; a flag whose path does not exist reads false.
C1_IsVideoCreatedIff ==
    last.op = "is_video_created" =>
        last.ret = Bool(FlagSet(last.arg, "video_created") /\ FileAtPath(last.arg))

\* C1 witness: a read of a record whose flag is set and whose file is missing
C1_DanglingFlagReadsFalse ==
    /\ last.op = "is_video_created"
    /\ FlagSet(last.arg, "video_created")
    /\ ~FileAtPath(last.arg)
    /\ last.ret = Bool(FALSE)

ReadOps ==
    {"get_all_entries", "get_entry", "is_video_created", "is_uploaded",
     "get_dates_needing_video", "get_dates_needing_upload"}

\* C2: no read operation changes the persisted mapping; a read that finds
\* the flag set and the file missing leaves the record as it was.
C2_ReadsKeepLedger ==
    [][last'.op \in ReadOps => tracking_file' = tracking_file]_vars

\* C2 witness: after is_video_created found a dangling flag, the record
\* still carries the flag and its upload fields
C2_DanglingFlagKept ==
    /\ last.op = "is_video_created"
    /\ last.ret = Bool(FALSE)
    /\ FlagSet(last.arg, "video_created")
    /\ FlagSet(last.arg, "youtube_uploaded")
    /\ Stored[last.arg].video_path \notin files

\* C3: is_uploaded(d) returns true if and only if a record for d exists and
\* its youtube_uploaded flag is true, whatever the state of the video file.
C3_IsUploadedIff ==
    last.op = "is_uploaded" =>
        last.ret = Bool(FlagSet(last.arg, "youtube_uploaded"))

\* C3 witness: is_uploaded reads true for a record without a video
C3_UploadedWithoutVideo ==
    /\ last.op = "is_uploaded"
    /\ last.ret = Bool(TRUE)
    /\ ~FlagSet(last.arg, "video_created")
    /\ files = {}

-----------------------------------------------------------------------------
(* Properties of the ledger: the two mutators *)

VideoFields == {"video_created", "video_path", "created_at"}
UploadFields == {"youtube_uploaded", "youtube_video_id", "uploaded_at"}

\* The entry of d in data, without fields if there is none
FieldsOf(data, d) == IF d \in DOMAIN data THEN data[d] ELSE EmptyDict

\* The records of old and new agree on the given fields of d, and on every
\* other date
Framed(old, new, d, fields) ==
    /\ DOMAIN new = DOMAIN old \cup {d}
    /\ \A k \in DOMAIN old \ {d} : new[k] = old[k]
    /\ \A f \in fields :
          /\ f \in DOMAIN FieldsOf(new, d) <=> f \in DOMAIN FieldsOf(old, d)
          /\ f \in DOMAIN FieldsOf(old, d) => new[d][f] = FieldsOf(old, d)[f]

C5_MarkUploaded ==
    [][last'.op = "mark_uploaded" =>
        /\ Framed(Stored, Stored', last'.arg[1], VideoFields)
        /\ Stored'[last'.arg[1]].youtube_uploaded = TRUE
        /\ Stored'[last'.arg[1]].youtube_video_id = last'.arg[2]]_vars

\* C5 witness: an upload recorded, a day later, for a date whose video is
\* recorded, next to the record of another date
C5_UploadRecordedOnVideo ==
    /\ last.op = "mark_uploaded"
    /\ FlagSet(last.arg[1], "video_created")
    /\ Stored[last.arg[1]].created_at < Stored[last.arg[1]].uploaded_at
    /\ Cardinality(DOMAIN Stored) = 2

-----------------------------------------------------------------------------
(* Properties of the flows that clear a flag *)

\* C6: once the delete-local flow, confirmed by the user, has ended for a
\* date, is_video_created reads false for it.
C6_DeleteLocalClears ==
    (last.op = "action_delete_local" /\ last.arg[2]) =>
        ~is_video_created(last.arg[1])

\* C7: once the remove-from-YouTube flow has ended for a date, confirmed,
\* authenticated and with the remote deletion reported, is_uploaded reads
\* false for it.
C7_RemoveClears ==
    (/\ last.op = "action_remove_from_youtube"
     /\ last.arg[2].confirm /\ last.arg[2].auth_ok /\ last.arg[2].deleted) =>
        ~is_uploaded(last.arg[1])

\* C16: after youtube_sync has ended for an authenticated user, every date
\* of the recent dates reads uploaded if and only if its title is a key of
\* the remote listing, and a date whose title is listed carries the listed
\* video id.
C16_SyncMatchesRemote ==
    (last.op = "youtube_sync" /\ last.arg[1]) =>
        \A k \in 1..Len(last.arg[3]) :
            LET d == last.arg[3][k]
                title == make_video_title(d)
            IN  /\ is_uploaded(d) <=> title \in DOMAIN last.arg[2]
                /\ title \in DOMAIN last.arg[2] =>
                       /\ d \in DOMAIN Stored
                       /\ "youtube_video_id" \in DOMAIN Stored[d]
                       /\ Stored[d].youtube_video_id = last.arg[2][title]

-----------------------------------------------------------------------------
(* Properties of the purge *)

\* The calendar: the days from the date a key denotes to 2026-02-01
DaysToStart(k) ==
    CASE k = K_0101 -> 31
      [] k = K_0102 -> 30
      [] k = K_0201 -> 0
      [] k = K_1231 -> 32
      [] k = K_short -> 31

\* The keys that denote no date
NoDate == {K_0230, K_text}

\* The key denotes a date more than n days before today
Older(k, n) == k \notin NoDate /\ DaysToStart(k) + (today - StartDay) > n

\* C8: cleanup_old_entries(n) removes exactly the records whose date is more
\* than n days before today and leaves every other record untouched; a
\* record exactly n days old is retained.
C8_PurgeExact ==
    [][last'.op = "cleanup_old_entries" =>
        /\ DOMAIN Stored' = {k \in DOMAIN Stored : ~Older(k, last'.arg)}
        /\ \A k \in DOMAIN Stored' : Stored'[k] = Stored[k]]_vars

\* C8 witness: a purge with 30 days on 2026-02-01 removed 2026-01-01 and
\* retained 2026-01-02
C8_BoundaryRetained ==
    /\ last.op = "cleanup_old_entries"
    /\ last.arg = 30
    /\ today = StartDay
    /\ last.out # <<>>
    /\ K_0101 \in last.out[3]
    /\ K_0102 \in DOMAIN Stored

\* C9 as stated: cleanup_old_entries returns the collection of the keys it
\* removed.
C9_ReturnsRemoved ==
    [][last'.op = "cleanup_old_entries" =>
        /\ last'.ret.kind = "list"
        /\ last'.ret.val = DOMAIN Stored \ DOMAIN Stored']_vars

\* C9 as amended: cleanup_old_entries returns None; the keys it removed are
\* printed, and only when at least one was removed.
C9_ReturnsNone ==
    [][last'.op = "cleanup_old_entries" =>
        LET gone == DOMAIN Stored \ DOMAIN Stored'
        IN  /\ last'.ret = None
            /\ gone # {} => last'.out = <<"Cleaned up", Cardinality(gone), gone>>
            /\ gone = {} => last'.out = <<>>]_vars

\* C9 witness: a purge that removed two keys and returned None
C9_RemovedAndReturnedNone ==
    /\ last.op = "cleanup_old_entries"
    /\ last.ret = None
    /\ last.out # <<>>
    /\ last.out[2] = 2

\* C10: with keys that are no dates in the ledger, cleanup_old_entries does
\* not raise, keeps their records and removes every date older than the
\* cutoff.
C10_NoDateSkipped ==
    [][last'.op = "cleanup_old_entries" =>
        /\ last'.ret.kind # "raise"
        /\ \A k \in DOMAIN Stored :
              /\ k \in NoDate => k \in DOMAIN Stored' /\ Stored'[k] = Stored[k]
              /\ Older(k, last'.arg) => k \notin DOMAIN Stored']_vars

\* C10 witness: a purge that removed a date from a ledger holding both keys
\* that are no dates
C10_PurgedBesideNoDate ==
    /\ last.op = "cleanup_old_entries"
    /\ NoDate \subseteq DOMAIN Stored
    /\ last.out # <<>>
    /\ K_short \in last.out[3]

-----------------------------------------------------------------------------
(* Properties of the backing store *)

\* The file exists and does not hold the text of a mapping
Unreadable == tracking_file.exists /\ tracking_file.form # "object"

StoreHolds(m) == _load_result = Dict(m)

\* C13: every mutation of the ledger is atomic with respect to the file: at
\* every instant of a mutation, and after the process was killed in the
\* middle of it, the file holds the complete mapping of before the mutation
\* or the complete mapping of after it, and once the mutator has returned it
\* holds the mapping of after it.
C13_SaveAtomic ==
    /\ run.pc \in {"open", "partial", "killed"} =>
           StoreHolds(run.pre) \/ StoreHolds(run.data)
    /\ (last.op \in {"mark_video_created", "mark_uploaded"}
           /\ last.ret = None) =>
           /\ tracking_file.form = "object"
           /\ last.arg[1] \in DOMAIN tracking_file.data

-----------------------------------------------------------------------------
(* Properties of the two work lists *)

\* The video of d is created: the flag is set and the file is there
Created(d) == FlagSet(d, "video_created") /\ FileAtPath(d)

\* The elements of a list
Range(l) == {l[k] : k \in 1..Len(l)}

\* C14: get_dates_needing_video(dates) returns exactly the elements of dates
\* whose video is not created, repeated elements included, in the order of
\* the input.
C14_NeedingVideoExact ==
    last.op = "get_dates_needing_video" =>
        last.ret = List(SelectSeq(last.arg, LAMBDA d : ~Created(d)))

\* C14 witness: of a list that names one date twice, the date whose video is
\* created is left out and the date whose flag is set without a file is
\* returned twice
C14_RepeatedDateKept ==
    /\ last.op = "get_dates_needing_video"
    /\ last.arg = <<K_0102, K_0102, K_0201>>
    /\ last.ret = List(<<K_0102, K_0102>>)
    /\ FlagSet(K_0102, "video_created")
    /\ Created(K_0201)

\* C15: get_dates_needing_upload(dates) returns exactly the elements of
\* dates whose video is created and that are not uploaded, in the order of
\* the input; no date is in both work lists of the same input.
C15_NeedingUploadExact ==
    /\ last.op = "get_dates_needing_upload" =>
           last.ret = List(SelectSeq(last.arg,
               LAMBDA d : Created(d) /\ ~FlagSet(d, "youtube_uploaded")))
    /\ \A l \in DateLists :
           Range(get_dates_needing_video(l))
               \cap Range(get_dates_needing_upload(l)) = {}

\* C15 witness: of two created dates the one that is uploaded is left out
\* and the other one is returned
C15_UploadedLeftOut ==
    /\ last.op = "get_dates_needing_upload"
    /\ last.arg = <<K_0201, K_0102>>
    /\ last.ret = List(<<K_0102>>)
    /\ Created(K_0201)
    /\ FlagSet(K_0201, "youtube_uploaded")

-----------------------------------------------------------------------------
(* Properties of the build phase *)

\* A call of create_missing_videos is running or has ended
InBuild == run.pc \in {"fetch", "download", "render", "record", "cleanup",
                       "returned", "raised"}

\* The events of the call of the given kind
Events(ev) == SelectSeq(run.log, LAMBDA e : e.ev = ev)

\* A load of the ledger failed inside a per-date step of the call
LoadFailedInStep ==
    \E k \in 1..Len(run.log) :
        run.log[k].ev = "failed" /\ run.log[k].why = "JSONDecodeError"

\* C12: a failure to load the ledger inside a per-date step of
\* create_missing_videos propagates and stops the run: after it the call
\* runs its cleanup and ends by raising, it neither goes on to the next date
\* nor returns.
C12_LoadFailureStopsRun ==
    (InBuild /\ LoadFailedInStep) => run.pc \in {"cleanup", "raised"}

\* The number of events of the call of the given kind for date d
Count(ev, d) == Len(SelectSeq(run.log, LAMBDA e : e.ev = ev /\ e.date = d))

\* C17: a date that appears twice in the list passed to
\* create_missing_videos is processed as if it appeared once: in one call no
\* date is rendered more than once.
C17_RenderedAtMostOnce ==
    InBuild => \A d \in DateKeys : Count("render", d) <= 1

\* The dates the call before this one recorded
RecordedBefore ==
    {run.prev.log[k].date :
        k \in {j \in 1..Len(run.prev.log) : run.prev.log[j].ev = "record"}}

\* This call follows a call that returned, with the same candidates
Repeated ==
    /\ InBuild
    /\ run.prev.pc = "returned"
    /\ Range(run.prev.dates) = Range(run.dates)

\* C18: a call of create_missing_videos that follows a call on the same
\* candidates, with nothing changed in between, records no video and
\* returns 0, and it neither fetches, downloads nor renders for a date the
\* first call recorded.
C18_SecondBuildIdle ==
    Repeated =>
        /\ run.pc # "raised"
        /\ run.created = 0
        /\ Events("record") = <<>>
        /\ tracking_file = run.at_start
        /\ \A d \in RecordedBefore :
              Count("fetch", d) + Count("download", d) + Count("render", d) = 0

\* C18 witness: the second call returned 0 after it tried again the date
\* the first call failed on and left alone the date the first call recorded
C18_RetriedOnlyTheFailed ==
    /\ Repeated
    /\ run.pc = "returned"
    /\ last.ret = IntValue(0)
    /\ RecordedBefore = {K_0102}
    /\ Count("fetch", K_0201) = 1
    /\ Count("fetch", K_0102) = 0

\* The number of iterations of the loop that have begun
Begun ==
    IF run.need_video = <<>> THEN 0
    ELSE IF run.pc = "fetch" THEN run.i - 1 ELSE run.i

\* The dates the call has attempted, in the order of the attempts
Attempted == [k \in 1..Len(Events("fetch")) |-> Events("fetch")[k].date]

\* C19: a failure of the metadata fetch, of the frame download or of the
\* render for one date does not abort create_missing_videos: the call does
\* not end by raising, it attempts the dates of need_video one after the
\* other and all of them before it returns, the iteration that failed goes
\* from the failure to the cleanup without recording, only a date that was
\* recorded has a changed record, and a date recorded in the call stays
\* recorded.
C19_FailureKeepsBatch ==
    InBuild =>
        /\ run.pc # "raised"
        /\ Attempted = SubSeq(run.need_video, 1, Begun)
        /\ run.pc = "returned" => Begun = Len(run.need_video)
        /\ \A k \in 1..Len(run.log) :
              run.log[k].ev = "failed" =>
                  /\ k > 1
                  /\ run.log[k - 1].ev \in {"fetch", "download", "render"}
                  /\ run.log[k - 1].date = run.log[k].date
                  /\ k < Len(run.log) => run.log[k + 1].ev = "cleanup"
        /\ run.created = Len(Events("record"))
        /\ \A d \in DateKeys :
              /\ Count("record", d) = 0 =>
                    FieldsOf(Stored, d) = FieldsOf(run.at_start.data, d)
              /\ Count("record", d) > 0 => Created(d)

\* C19 witness: the call returned after the first date failed in the render
\* and the second date was recorded
C19_RecordedAfterFailure ==
    /\ run.pc = "returned"
    /\ run.need_video = <<K_0102, K_0201>>
    /\ run.log[3] = Event("render", K_0102, "")
    /\ run.log[4] = Event("failed", K_0102, "Error")
    /\ Count("record", K_0201) = 1
    /\ Created(K_0201)
    /\ last.ret = IntValue(1)

\* The processing of a date has ended and the next one has not begun
BetweenDates ==
    \/ run.pc = "fetch" /\ run.i > 1
    \/ run.pc = "returned" /\ run.need_video # <<>>

\* C20: when the processing of a date of create_missing_videos has ended,
\* by whichever path, the scratch directory has been deleted before the
\* processing of the next date starts and before the call returns.
C20_ScratchDeleted ==
    BetweenDates =>
        /\ frames = NoFrames
        /\ run.log[Len(run.log)].ev = "cleanup"

\* C20 witness: the call returned with the scratch directory deleted after
\* one date was skipped with a single frame and the download of the other
\* date failed
C20_DeletedAfterSkipAndFailure ==
    /\ run.pc = "returned"
    /\ run.need_video = <<K_0102, K_0201>>
    /\ run.log[3] = Event("skip", K_0102, "frames")
    /\ run.log[7] = Event("failed", K_0201, "RequestException")
    /\ frames = NoFrames

\* The collaborators return too little for a video of d: no metadata, or
\* fewer than 2 frames
TooFew(d) == collab[d].fetch = "ok" /\ collab[d].images < 2

\* C21: create_missing_videos records a date only after its metadata were
\* not empty, at least 2 frames were downloaded and the render returned; a
\* date with empty metadata or fewer than 2 frames is not rendered and not
\* recorded, its record is as before the call, its video reads not created
\* and get_dates_needing_video still returns it after the call.
C21_RecordedOnlyWhenRendered ==
    InBuild =>
        /\ \A k \in 1..Len(run.log) :
              run.log[k].ev = "record" =>
                  LET d == run.log[k].date
                  IN  /\ k > 3
                      /\ run.log[k - 3] = Event("fetch", d, "")
                      /\ run.log[k - 2] = Event("download", d, "")
                      /\ run.log[k - 1] = Event("render", d, "")
                      /\ collab[d].fetch = "ok"
                      /\ collab[d].images >= 2
                      /\ collab[d].render
        /\ \A d \in Range(run.need_video) :
              TooFew(d) =>
                  /\ Count("render", d) = 0
                  /\ Count("record", d) = 0
                  /\ FieldsOf(Stored, d) = FieldsOf(run.at_start.data, d)
                  /\ ~Created(d)
                  /\ run.pc = "returned" =>
                        d \in Range(get_dates_needing_video(run.dates))

\* C21 witness: the call returned 0 after it skipped one date without
\* metadata and one date with a single frame, and no ledger file was
\* written
C21_BothSkipped ==
    /\ run.pc = "returned"
    /\ run.need_video = <<K_0102, K_0201>>
    /\ collab[K_0102].images = 0
    /\ collab[K_0201].images = 1
    /\ Count("skip", K_0102) = 1
    /\ Count("skip", K_0201) = 1
    /\ Count("download", K_0201) = 1
    /\ last.ret = IntValue(0)
    /\ ~tracking_file.exists

-----------------------------------------------------------------------------
(* The upload phase *)

\* The frame is one of upload_missing_videos
InUpload == "need_upload" \in DOMAIN run

\* The authentication of the call failed
AuthFailed ==
    InUpload /\ \E k \in 1..Len(run.log) :
                    run.log[k].ev = "auth" /\ run.log[k].why = "Error"

\* C22: when the authentication fails in upload_missing_videos, the call
\* returns 0 and does not raise, it has neither fetched the listing nor
\* published a video, and the ledger file and the channel are as they were
\* when the call started.
C22_AuthFailureReturnsZero ==
    AuthFailed =>
        /\ run.pc = "returned"
        /\ run.log = <<Event("auth", <<>>, "Error")>>
        /\ run.uploaded = 0
        /\ last.op = "upload_missing_videos" =>
               /\ last = Call("upload_missing_videos", run.dates, IntValue(0),
                              run.log)
               /\ tracking_file = run.at_start
               /\ channel = run.on_channel

\* The authentication failed in a call that had a created video to upload
C22_AuthFailedWithPending ==
    /\ AuthFailed
    /\ last.op = "upload_missing_videos"
    /\ run.need_upload # <<>>
    /\ \E d \in Range(run.need_upload) : Created(d) /\ ~FlagSet(d, "youtube_uploaded")

\* The fetch of the listing failed in the call
ListingFailed ==
    InUpload /\ \E k \in 1..Len(run.log) :
                    run.log[k].ev = "listing" /\ run.log[k].why = "Error"

\* The date of the iteration the call is in
Current == run.need_upload[run.i]

\* The iterations of the call that have ended
Ended ==
    IF run.pc \in {"returned", "raised"} /\ run.need_upload # <<>>
        /\ Events("listing") # <<>>
    THEN run.i
    ELSE IF run.pc \in {"title", "publish", "mark"} THEN run.i - 1 ELSE 0

\* C23: when the fetch of the listing fails in upload_missing_videos, the
\* call goes on with an empty listing and does not raise: no date is taken
\* as already on the channel, an iteration whose date has a path in the
\* ledger and a file at that path goes on to upload_video and any other is
\* skipped, and every date of need_upload has its iteration before the
\* call returns.
C23_ListingFailureIsEmptyListing ==
    /\ [](ListingFailed =>
            /\ run.existing_titles = EmptyDict
            /\ run.pc # "raised"
            /\ Events("on_remote") = <<>>
            /\ Len(Events("publish")) + Len(Events("skip")) =
                   Ended + (IF run.pc = "mark" THEN 1 ELSE 0)
            /\ run.pc = "returned" => Ended = Len(run.need_upload))
    /\ [][(ListingFailed /\ run.pc = "title" /\ run' # run) =>
             IF FileAtPath(Current)
             THEN run'.pc = "publish" /\ run'.i = run.i
             ELSE run'.log = run.log \o <<Event("skip", Current, "no file")>>]_vars

\* The fetch of the listing failed and a date whose title is on the channel
\* was passed to upload_video
C23_PublishedThoughOnChannel ==
    /\ ListingFailed
    /\ run.pc = "returned"
    /\ \E k \in 1..Len(run.log) :
          /\ run.log[k].ev = "publish"
          /\ \E v \in run.on_channel : v.title = make_video_title(run.log[k].date)

\* The title of the date of the iteration is a key of the fetched listing
Listed == make_video_title(Current) \in DOMAIN run.existing_titles

\* C24: in upload_missing_videos a date of need_upload whose title is a key
\* of the fetched listing is not passed to upload_video: its iteration calls
\* mark_uploaded with the id the listing holds for the title, counts the
\* date and leaves the channel as it is.
C24_ListedIsMarkedNotPublished ==
    /\ [](InUpload =>
            \A k \in 1..Len(run.log) :
                run.log[k].ev = "publish" =>
                    make_video_title(run.log[k].date)
                        \notin DOMAIN run.existing_titles)
    /\ [][(InUpload /\ run.pc = "title" /\ Listed /\ run' # run) =>
             LET video_id == run.existing_titles[make_video_title(Current)]
             IN  /\ run'.log = run.log \o <<Event("on_remote", Current, video_id)>>
                 /\ run'.uploaded = run.uploaded + 1
                 /\ run'.pc \in {"title", "returned"}
                 /\ tracking_file'.data =
                        with_uploaded(Stored, Current, video_id)
                 /\ tracking_file'.data[Current].youtube_video_id = video_id
                 /\ tracking_file'.data[Current].youtube_uploaded = TRUE
                 /\ channel' = channel]_vars

\* The call found the title of a created date on the channel and returned
\* with the date marked under the id of the channel's video
C24_MarkedFromListing ==
    /\ InUpload
    /\ last.op = "upload_missing_videos"
    /\ run.pc = "returned"
    /\ run.uploaded >= 1
    /\ Events("publish") = <<>>
    /\ FlagSet(K_0102, "youtube_uploaded")
    /\ Stored[K_0102].youtube_video_id = OldVideo.id
    /\ channel = {OldVideo}

\* C25: upload_missing_videos goes on to upload_video for a date only when
\* the record of the date holds a video path and a file exists at that path
\* when the loop looks; an iteration whose date is not listed and has no
\* path or no file is skipped: the ledger file and the channel stay as they
\* are and the date is not counted.
C25_PublishNeedsFile ==
    [][(InUpload /\ run.pc = "title" /\ run' # run) =>
         /\ run'.pc = "publish" =>
                /\ FileAtPath(Current)
                /\ run'.video_path = <<Stored[Current].video_path>>
         /\ (~Listed /\ ~FileAtPath(Current)) =>
                /\ Len(run'.log) = Len(run.log) + 1
                /\ run'.log[Len(run'.log)].ev = "skip"
                /\ run'.log[Len(run'.log)].date = Current
                /\ run'.uploaded = run.uploaded
                /\ run'.pc \in {"title", "returned"}
                /\ tracking_file' = tracking_file
                /\ channel' = channel]_vars

\* A date that needed an upload was skipped because its file was gone, and
\* the call returned without counting it and with the ledger as before
C25_SkippedWithoutFile ==
    /\ InUpload
    /\ last.op = "upload_missing_videos"
    /\ run.pc = "returned"
    /\ \E k \in 1..Len(run.log) :
          /\ run.log[k].ev = "skip"
          /\ ~FileAtPath(run.log[k].date)
          /\ ~FlagSet(run.log[k].date, "youtube_uploaded")
    /\ tracking_file = run.at_start
    /\ run.uploaded = 0

\* The event at position k of the log is an upload_video that gave no id
NoIdAt(k) ==
    /\ k < Len(run.log)
    /\ run.log[k].ev = "publish"
    /\ run.log[k + 1].ev \in {"no id", "failed"}

\* C26: in upload_missing_videos, mark_uploaded(d, id) follows the
\* upload_video of d exactly when upload_video returned an id, and the id is
\* the one of the video the channel received; when upload_video raises or
\* returns no id, the ledger file is unchanged, d is not counted and the loop
\* goes on to the next date of need_upload, so that the call returns after
\* an iteration for every date.
C26_MarkedIffIdReturned ==
    /\ [](InUpload =>
            /\ \A k \in 1..Len(run.log) :
                   /\ run.log[k].ev = "mark" =>
                          /\ k > 1
                          /\ run.log[k - 1] = Event("publish", run.log[k].date, "")
                          /\ [title |-> make_video_title(run.log[k].date),
                               id |-> run.log[k].why] \in channel \ run.on_channel
                   /\ (run.log[k].ev = "publish" /\ k < Len(run.log)) =>
                          /\ run.log[k + 1].ev \in {"mark", "no id", "failed"}
                          /\ run.log[k + 1].date = run.log[k].date
            /\ run.uploaded = Len(Events("mark")) + Len(Events("on_remote"))
            /\ (run.pc = "returned" /\ Events("listing") # <<>>) =>
                   Ended = Len(run.need_upload))
    /\ [][(InUpload /\ run.pc = "publish" /\ run' # run) =>
             IF run'.pc = "mark"
             THEN /\ channel' = channel \cup
                        {[title |-> make_video_title(Current),
                          id |-> run'.video_id]}
                  /\ channel' # channel
             ELSE /\ Len(run'.log) = Len(run.log) + 2
                  /\ run'.log[Len(run.log) + 1] = Event("publish", Current, "")
                  /\ run'.log[Len(run.log) + 2].ev \in {"no id", "failed"}
                  /\ channel' = channel
                  /\ tracking_file' = tracking_file
                  /\ run'.uploaded = run.uploaded
                  /\ IF run.i < Len(run.need_upload)
                     THEN run'.pc = "title" /\ run'.i = run.i + 1
                     ELSE run'.pc = "returned"]_vars
    /\ [][(InUpload /\ run.pc = "mark" /\ run' # run) =>
             /\ run'.log = run.log \o <<Event("mark", Current, run.video_id)>>
             /\ run'.uploaded = run.uploaded + 1
             /\ tracking_file'.data[Current].youtube_uploaded = TRUE
             /\ tracking_file'.data[Current].youtube_video_id = run.video_id]_vars

\* upload_video gave no id for the first date and the call went on: it
\* returned 1 with the second date uploaded and the first one not
C26_LaterDateUploaded ==
    /\ InUpload
    /\ last.op = "upload_missing_videos"
    /\ run.pc = "returned"
    /\ run.need_upload = <<K_0102, K_0201>>
    /\ \E k \in 1..Len(run.log) : NoIdAt(k) /\ run.log[k].date = K_0102
    /\ ~FlagSet(K_0102, "youtube_uploaded")
    /\ FlagSet(K_0201, "youtube_uploaded")
    /\ last.ret = IntValue(1)

\* C27: no exception raised inside the per-date loop body of
\* create_missing_videos or upload_missing_videos escapes to the caller: a
\* call that ends by raising has not begun its loop.
C27_LoopBodyNeverRaises ==
    run.pc = "raised" => run.log = <<>>

-----------------------------------------------------------------------------
(* The daily run *)

\* main has ended
Exited == last.op = "main"

\* The last step of main ended by raising
Fatal == last.op \in MainSteps /\ last.ret.kind = "raise"

\* C28: main ends with exit status 1 whenever an exception escapes the date
\* listing, the build, the upload or the purge, and ends normally otherwise,
\* which is after the summary or without recent dates; after an exception
\* that escaped a step the only thing main does is to exit, so that the
\* upload does not run after an escape of the build nor the purge after an
\* escape of the upload.
C28_FatalExitsAtOnce ==
    /\ [][(Fatal /\ vars' # vars) =>
             /\ last' = Call("main", last.op, IntValue(1), <<"FATAL ERROR">>)
             /\ UNCHANGED <<tracking_file, data_dir, files, today, frames, run,
                            collab, channel>>]_vars
    /\ [][(~Exited /\ Exited') =>
             /\ last'.ret = IntValue(IF Fatal THEN 1 ELSE 0)
             /\ ~Fatal =>
                    \/ last.op = "print_summary"
                    \/ last = Call("get_recent_epic_dates", <<>>, List(<<>>),
                                   <<>>)]_vars
    /\ [](Exited =>
            /\ last.arg = "get_recent_epic_dates" => run = Idle
            /\ last.arg = "create_missing_videos" =>
                   last.ret = IntValue(1) /\ ~InUpload /\ run.pc = "raised"
            /\ last.arg = "upload_missing_videos" =>
                   last.ret = IntValue(1) /\ InUpload /\ run.pc = "raised"
            /\ last.arg = "cleanup_old_entries" =>
                   last.ret = IntValue(1) /\ InUpload /\ run.pc = "returned"
            /\ last.arg = "print_summary" => InUpload /\ run.pc = "returned")

\* main exited with status 1 after the upload phase raised, with a video
\* that the build phase of the run had recorded
C28_ExitedAfterUploadRaised ==
    /\ Exited
    /\ last.arg = "upload_missing_videos"
    /\ last.ret = IntValue(1)
    /\ run.prev.pc = "returned"
    /\ \E k \in 1..Len(run.prev.log) : run.prev.log[k].ev = "record"

\* C29: in every state of the ledger that calls of create_missing_videos,
\* upload_missing_videos and cleanup_old_entries reach from an empty
\* ledger, every record whose youtube_uploaded flag is true has a
\* video_created flag that is true.
C29_UploadedImpliesCreated ==
    \A d \in DOMAIN Stored :
        FlagSet(d, "youtube_uploaded") => FlagSet(d, "video_created")

\* After a build, an upload and a purge the ledger has lost the old date
\* and holds the other one created and uploaded
C29_UploadedAfterAllThree ==
    /\ last.op = "cleanup_old_entries"
    /\ InUpload
    /\ run.prev.pc = "returned"
    /\ K_0102 \in Range(run.dates)
    /\ DOMAIN Stored = {K_0201}
    /\ FlagSet(K_0201, "youtube_uploaded")
    /\ FlagSet(K_0201, "video_created")

-----------------------------------------------------------------------------
(* The fields of a record *)

-----------------------------------------------------------------------------
(* Titles *)

\* The videos of the channel that carry the id the ledger holds for d
VideosOf(d) == {v \in channel : v.id = Stored[d].youtube_video_id}

\* C31: the title of a date depends on the date alone: in every state,
\* whatever the day, the ledger and the channel, the title computed for a
\* date that the ledger marks uploaded is the title of the video the channel
\* holds under the id of the record, be it the title upload_video gave the
\* video or the title upload_missing_videos found in the listing.
C31_TitleDependsOnDateOnly ==
    \A d \in DOMAIN Stored :
        FlagSet(d, "youtube_uploaded") =>
            /\ VideosOf(d) # {}
            /\ \A v \in VideosOf(d) : v.title = make_video_title(d)

\* A video that upload_video published is looked at on a later day
C31_TitleOnLaterDay ==
    \E d \in DOMAIN Stored :
        /\ FlagSet(d, "youtube_uploaded")
        /\ Stored[d].uploaded_at < today
        /\ \E v \in VideosOf(d) : v # OldVideo

-----------------------------------------------------------------------------
(* The flows of the TUI that change an upload *)

\* C32: after youtube_sync has ended for an authenticated user, every date
\* of the recent dates that the ledger marks uploaded carries the video id
\* the listing holds for the title of the date, whatever id the record held
\* before.
C32_SyncTakesListedId ==
    (last.op = "youtube_sync" /\ last.arg[1]) =>
        \A d \in Range(last.arg[3]) :
            FlagSet(d, "youtube_uploaded") =>
                /\ make_video_title(d) \in DOMAIN last.arg[2]
                /\ Stored[d].youtube_video_id = last.arg[2][make_video_title(d)]

-----------------------------------------------------------------------------
(* The order of the phases of a run *)

\* The dates the call recorded
Recorded(log) == {log[k].date : k \in {j \in 1..Len(log) : log[j].ev = "record"}}

\* C33: in a run of main the build phase comes first, the upload phase
\* starts after the build phase has returned and the purge after the upload
\* phase has returned; the dates that need an upload are read from the
\* ledger as the build phase left it, so that every date the build phase
\* recorded is among them.
C33_BuildThenUploadThenPurge ==
    /\ [](InUpload => run.prev.pc = "returned" /\ run.prev.dates = run.dates)
    /\ [](last.op \in {"cleanup_old_entries", "print_summary"} =>
            InUpload /\ run.pc = "returned")
    /\ [][(run.pc = "idle" /\ run'.pc # "idle") =>
             "need_video" \in DOMAIN run']_vars
    /\ [][(~InUpload /\ InUpload' /\ run'.pc # "raised") =>
             /\ last.op = "create_missing_videos"
             /\ Recorded(run.log) \subseteq Range(run'.need_upload)
             /\ run'.at_start = tracking_file]_vars

\* A run recorded a video in its build phase, uploaded it in its upload
\* phase and ended after the purge and the summary
C33_BuiltAndUploadedInOneRun ==
    /\ Exited
    /\ last.arg = "print_summary"
    /\ InUpload
    /\ \E d \in Recorded(run.prev.log) :
          /\ d \in Range(run.need_upload)
          /\ FlagSet(d, "youtube_uploaded")
          /\ \E k \in 1..Len(run.log) : run.log[k] = Event("mark", d, Stored[d].youtube_video_id)

-----------------------------------------------------------------------------
(* The attempts of upload_video *)

\* The frame is one of upload_video
InPublish == "attempt" \in DOMAIN run

\* The attempts of the call that failed
Failures == SelectSeq(run.log, LAMBDA r : r # "id")

\* C34: upload_video ends after at most MAX_RETRIES attempts: every call
\* that reaches its loop returns; it returns the id of the first attempt
\* that succeeds, which is its last attempt, and the channel has received
\* one video; it returns None when MAX_RETRIES attempts have failed, and
\* not before.
C34_AtMostMaxRetriesAttempts ==
    /\ [](InPublish =>
            /\ Len(run.log) <= MAX_RETRIES
            /\ \A k \in 1..(Len(run.log) - 1) : run.log[k] # "id"
            /\ run.pc = "insert" =>
                   run.log = Failures /\ run.attempt = Len(run.log) + 1
            /\ (run.pc = "returned" /\ run.attempt > 0) =>
                   IF last.ret.kind = "str"
                   THEN /\ run.log[Len(run.log)] = "id"
                        /\ channel = run.on_channel \cup
                              {[title |-> make_video_title(run.date),
                                id |-> last.ret.val]}
                        /\ Cardinality(channel) =
                              Cardinality(run.on_channel) + 1
                   ELSE /\ last.ret = None
                        /\ run.log = Failures
                        /\ Len(run.log) = MAX_RETRIES
                        /\ channel = run.on_channel)
    /\ (InPublish /\ run.pc = "insert") ~> (InPublish /\ run.pc = "returned")

\* A call returned the id of its third attempt
C34_ThirdAttemptSucceeded ==
    /\ InPublish
    /\ run.pc = "returned"
    /\ Len(run.log) = MAX_RETRIES
    /\ last.ret.kind = "str"

\* The videos the channel holds under the title of date d
CopiesOf(d) == {v \in channel : v.title = make_video_title(d)}

\* The remove flow of the re-upload would end with the old copy deleted
Removes(answers) ==
    answers.remove.confirm /\ answers.remove.auth_ok /\ answers.remove.deleted

C36_UnpublishedIsCleared ==
    (/\ last.op = "action_remove_from_youtube"
     /\ last.arg[1] \in DOMAIN Stored
     /\ "youtube_video_id" \in DOMAIN Stored[last.arg[1]]
     /\ last.arg[2].confirm /\ last.arg[2].auth_ok /\ last.arg[2].deleted) =>
        /\ last.ret.kind # "raise"
        /\ ~FlagSet(last.arg[1], "youtube_uploaded")

\* The purge step of a run of main is taken
PurgeStep ==
    /\ last.op = "upload_missing_videos"
    /\ last'.op = "cleanup_old_entries"
    /\ InUpload

\* C37: the purge step of a run, which keeps 30 days, leaves the record of
\* every candidate date of the run (the dates from today - LOOKBACK_DAYS to
\* today that step 1 returned) as it was, whatever older records it removes.
C37_PurgeKeepsCandidates ==
    [][PurgeStep =>
        \A d \in Range(run.dates) :
            /\ today - LOOKBACK_DAYS <= strptime(d).ord
            /\ strptime(d).ord <= today
            /\ d \in DOMAIN Stored =>
                  d \in DOMAIN Stored' /\ Stored'[d] = Stored[d]]_vars

\* The purge of a run has removed the record of 2025-12-31 and the record
\* of a candidate date, created and uploaded by the run, is in the ledger
C37_PurgedOldKeptCandidate ==
    /\ last.op = "cleanup_old_entries"
    /\ last.out # <<>>
    /\ K_1231 \notin DOMAIN Stored
    /\ InUpload
    /\ \E d \in Range(run.dates) :
          FlagSet(d, "video_created") /\ FlagSet(d, "youtube_uploaded")

\* C38: over runs with a duplicate-free candidate list whose listing fetch
\* succeeds, runs killed between a publish and the mark_uploaded that
\* follows it included, the channel holds at most one video under the title
\* of a date: no date is published twice, and none is published that the
\* channel held before.
C38_PublishedAtMostOnce ==
    \A d \in DateKeys : Cardinality(CopiesOf(d)) <= 1

\* A run marks a date from the listing with the id under which an earlier
\* run, killed before its mark_uploaded, published it
C38_MarkedAfterKilledRun ==
    /\ InUpload
    /\ \E k \in 1..Len(run.log) :
          /\ run.log[k].ev = "on_remote"
          /\ run.log[k].why # OldVideo.id
          /\ FlagSet(run.log[k].date, "youtube_uploaded")
          /\ Stored[run.log[k].date].youtube_video_id = run.log[k].why

\* C39: when the download of the frames of a date begins, and when its
\* frames are rendered, frames/ holds no file with an image of another date.
C39_NoFramesOfAnotherDate ==
    (InBuild /\ run.pc \in {"download", "render"}) =>
        frames.owners \subseteq {date_str_of(run)}

\* A run of main has ended after its summary, and no call of a collaborator
\* in it failed: the build logged no failure, the authentication and the
\* listing succeeded and every publish returned an id
Succeeded ==
    /\ Exited
    /\ last.arg = "print_summary"
    /\ last.ret = IntValue(0)
    /\ InUpload
    /\ \A k \in 1..Len(run.prev.log) : run.prev.log[k].ev # "failed"
    /\ \A k \in 1..Len(run.log) :
          /\ run.log[k].ev \notin {"failed", "no id"}
          /\ run.log[k].ev \in {"auth", "listing"} => run.log[k].why = ""

\* C40: with runs repeated, any of which may be killed at any step, every
\* run that starts ends or is killed, and at the end of a run in which the
\* ledger was readable and every call of a collaborator succeeded every
\* candidate date with at least 2 frames has its video created and reads
\* uploaded, so that it needs neither a video nor an upload.
C40_SuccessfulRunCompletes ==
    /\ [](Succeeded =>
            \A d \in Range(run.dates) :
                collab[d].images >= 2 =>
                    /\ is_video_created(d) /\ is_uploaded(d)
                    /\ get_dates_needing_video(<<d>>) = <<>>
                    /\ get_dates_needing_upload(<<d>>) = <<>>)
    /\ (last.op = "start") ~> (Exited \/ run.pc = "killed")

\* A run succeeded after a run that was killed between its publish and its
\* mark_uploaded: the candidate it marked from the listing is created and
\* uploaded
C40_SucceededAfterKilledRun ==
    /\ Succeeded
    /\ \E k \in 1..Len(run.log) :
          /\ run.log[k].ev = "on_remote"
          /\ run.log[k].why # OldVideo.id
          /\ collab[run.log[k].date].images >= 2
          /\ is_video_created(run.log[k].date)
          /\ is_uploaded(run.log[k].date)

====
